---- MODULE Spec2Model ----
(***************************************************************************)
(* Resolution-and-routing core of the verifiable data agent:               *)
(* fetch_verifiable_data (the Fetch Router), the four static-dataset       *)
(* resolvers with their TTL caches, the live price resolver, and the       *)
(* identifier normalizers.                                                 *)
(*                                                                         *)
(* Conventions.  Python str values are TLA+ strings, read character by     *)
(* character with SubSeq.  An Optional[str] that the code only tests for   *)
(* truthiness (query_details) is a string, None being "".  Python floats   *)
(* of the datasets are never computed with; they are kept as their decimal *)
(* literals ("185.3").  A dict is a function on its keys, so a key the     *)
(* code leaves out of a dict literal is outside the DOMAIN.                *)
(***************************************************************************)
EXTENDS Integers, Sequences, FiniteSets, TLC

VARIABLES
    now,                      \* datetime.utcnow(), in seconds since start
    simulated_carbon_data,    \* the carbon footprint reference table; never
                              \* written, a variable so that the scope rules
                              \* can be checked on more tables than the one
                              \* of the source
    education_cache,
    supply_chain_cache,
    carbon_footprint_cache,
    reputation_cache,
    call,                     \* inputs and locals of the last fetch_verifiable_data
    result,                   \* the envelope it returned
    calls,                    \* number of fetches made so far
    ticks,                    \* number of clock advances so far
    norm,                     \* an identifier, and a normalizer applied to it
    GEMINI_API_KEY,           \* whether the environment sets GEMINI_API_KEY
    storage,                  \* ctx.storage: the sender bound to each session
    inbox,                    \* the messages the agent sent to itself or a
                              \* caller sent to it, not yet handled, by the
                              \* number of the inbound message they stem from
    pending,                  \* the handlers suspended in an await, by the same
    outbox,                   \* the messages sent to other addresses, in the
                              \* order of sending, by the same
    fetched,                  \* the envelopes fetch_verifiable_data returned to
                              \* handle_verifiable_data_request, with the inputs
                              \* and locals of the call, by the same
    received,                 \* number of inbound messages so far
    formatted                 \* a response model, and the formatter applied to it

caches == <<education_cache, supply_chain_cache,
            carbon_footprint_cache, reputation_cache>>
agent == <<GEMINI_API_KEY, storage, inbox, pending, outbox, fetched, received, formatted>>
vars == <<now, simulated_carbon_data, caches, call, result, calls, ticks, norm, agent>>

----------------------------------------------------------------------------
(* Bounds of the model *)

MaxRequests == 2
MaxTicks == 2
MaxIdentifierLen == 3

(* Program constants *)

CACHE_EXPIRY_SECONDS == 300

----------------------------------------------------------------------------
(* The requests the router is driven with *)

\* every key of the four reference tables, a differently spelled and a
\* missing identifier per domain, with and without a hint
EducationRequests ==
    [data_type : {"education_credential"},
     identifier : {"john_smith", "jane_doe", "alex_chen", "Alex Chen", "nobody"},
     query_details : {""}]

SupplyChainRequests ==
    [data_type : {"supply_chain_status"},
     identifier : {"costa_rica_coffee", "ecophone_x1", "unknown_product"},
     query_details : {""}]

CarbonRequests ==
    [data_type : {"carbon_footprint"},
     identifier : {"macbook_pro", "sustainable_blend", "greencorp", "fashion_forward",
                   "london_nyc_flight", "california_electricity", "unknown_item"},
     query_details : {"", "scope=company"}]

ReputationRequests ==
    [data_type : {"reputation_score"},
     identifier : {"alex_developer", "decentra_dao", "trustdata_service", "nobody"},
     query_details : {"", "aspect=developer"}]

CryptoRequests ==
    [data_type : {"crypto_price"},
     identifier : {"bitcoin"},
     query_details : {"", "vs_currency=eur"}]

\* data types the router does not know
UnsupportedRequests ==
    [data_type : {"stock_price", "Stock_Price", ""},
     identifier : {"aapl"},
     query_details : {""}]

\* other spellings of the five data types
SpelledRequests ==
    { [data_type |-> "Education_Credential", identifier |-> "jane_doe", query_details |-> ""],
      [data_type |-> "SUPPLY_CHAIN_STATUS", identifier |-> "ecophone_x1", query_details |-> ""],
      [data_type |-> "Carbon_Footprint", identifier |-> "greencorp", query_details |-> "scope=company"],
      [data_type |-> "Carbon_Footprint", identifier |-> "unknown_item", query_details |-> ""],
      [data_type |-> "Reputation_Score", identifier |-> "alex_developer", query_details |-> "aspect=developer"],
      [data_type |-> "CRYPTO_PRICE", identifier |-> "bitcoin", query_details |-> ""] }

Requests ==
    EducationRequests \cup SupplyChainRequests \cup CarbonRequests
        \cup ReputationRequests \cup CryptoRequests \cup UnsupportedRequests
        \cup SpelledRequests

\* carbon footprint requests: identifiers of every scope in two spellings, a
\* missing and an empty one, with every scope hint, an unknown hint and two
\* hints at once
CarbonScopeRequests ==
    [data_type : {"carbon_footprint"},
     identifier : {"macbook_pro", "MacBook_Pro", "greencorp", "london_nyc_flight",
                   "unknown_item", ""},
     query_details : {"", "scope=company", "scope=product", "scope=activity",
                      "scope=planet", "scope=activity,scope=product"}]

\* reputation requests: every entity, the spellings the alias table is
\* written for, unknown entities and the empty identifier, with every aspect
\* hint, an unknown hint and two hints at once
ReputationAspectRequests ==
    [data_type : {"reputation_score"},
     identifier : {"alex_developer", "Alex_Developer", "decentra_dao",
                   "trustdata_service", "Alex Rodriguez", "Alex", "Rodriguez",
                   "alex_rodriguez", "DecentraGov", "dev_unknown", "nobody", ""},
     query_details : {"", "aspect=developer", "aspect=contributor",
                      "aspect=service", "aspect=general",
                      "aspect=service,aspect=developer"}]

\* the identifiers and data types of the requests
RequestStrings ==
    {req.identifier : req \in Requests \cup CarbonScopeRequests \cup ReputationAspectRequests}
        \cup {req.data_type : req \in Requests}

----------------------------------------------------------------------------
(* Python str operations *)

\* str.lower() on one character: the upper-case letters and their lower case
LowerOf ==
    [A |-> "a", B |-> "b", C |-> "c", D |-> "d", E |-> "e", F |-> "f", G |-> "g",
     H |-> "h", I |-> "i", J |-> "j", K |-> "k", L |-> "l", M |-> "m", N |-> "n",
     O |-> "o", P |-> "p", Q |-> "q", R |-> "r", S |-> "s", T |-> "t", U |-> "u",
     V |-> "v", W |-> "w", X |-> "x", Y |-> "y", Z |-> "z"]

CharAt(s, i) == SubSeq(s, i, i)

LowerChar(c) == IF c \in DOMAIN LowerOf THEN LowerOf[c] ELSE c

\* s.lower(), character by character
lower_chars(s) ==
    LET F[i \in 0..Len(s)] ==
            IF i = 0 THEN "" ELSE F[i - 1] \o LowerChar(CharAt(s, i))
    IN  F[Len(s)]

\* s.lower() of the strings of the requests and of their lower case, computed
\* once
LowerTable ==
    [s \in RequestStrings \cup {lower_chars(r) : r \in RequestStrings} |-> lower_chars(s)]

\* s.lower()
lower(s) == IF s \in DOMAIN LowerTable THEN LowerTable[s] ELSE lower_chars(s)

SpaceToUnderscore(c) == IF c = " " THEN "_" ELSE c

\* s.replace(" ", "_")
replace_spaces(s) ==
    LET F[i \in 0..Len(s)] ==
            IF i = 0 THEN "" ELSE F[i - 1] \o SpaceToUnderscore(CharAt(s, i))
    IN  F[Len(s)]

\* sub in s
Contains(sub, s) ==
    \E i \in 1..(Len(s) - Len(sub) + 1) : SubSeq(s, i, i + Len(sub) - 1) = sub

\* s.startswith(prefix)
startswith(s, prefix) ==
    /\ Len(prefix) <= Len(s)
    /\ SubSeq(s, 1, Len(prefix)) = prefix

\* Python truthiness of a str (None and "" are both falsy)
Truthy(s) == s # ""

\* None, where the code stores or returns it as a value
None == "None"

\* d.get(k, default) for a dict d
Get(d, k, default) == IF k \in DOMAIN d THEN d[k] ELSE default

\* d.get(k1) or d.get(k2) or ... or default: the first key of ks that d holds.
\* Every value the datasets hold under these keys is truthy (a non-empty
\* dict, list or str, or a non-zero number), so "present" is "truthy".
FirstOf(d, ks, default) ==
    IF \E i \in 1..Len(ks) : ks[i] \in DOMAIN d
    THEN d[ks[CHOOSE i \in 1..Len(ks) :
                /\ ks[i] \in DOMAIN d
                /\ \A j \in 1..(i - 1) : ks[j] \notin DOMAIN d]]
    ELSE default

\* the empty dict {}
EmptyDict == [k \in {} |-> None]

\* hashlib.sha256(json.dumps(record).encode()).hexdigest(): a digest is
\* determined by the serialized record and, collisions aside, determines it
sha256(record) == <<"sha256", record>>

----------------------------------------------------------------------------
(* The static reference tables, as the source writes them.  The resolvers   *)
(* build them as literals on every call, so they are definitions.          *)

\* simulated_credentials of education_credentials.py
simulated_credentials ==
    [
        john_smith |-> [
            name |-> "John Smith",
            credentials |-> <<
                [
                    type |-> "Degree",
                    name |-> "Bachelor of Science in Computer Science",
                    issuer |-> "Stanford University",
                    issueDate |-> "2020-06-15",
                    verificationStatus |-> "VERIFIED",
                    did |-> "did:example:123456789abcdefghi",
                    proofMethod |-> "BBS+ Signatures"
                ]
            >>
        ],
        jane_doe |-> [
            name |-> "Jane Doe",
            credentials |-> <<
                [
                    type |-> "Certificate",
                    name |-> "Blockchain Developer Certification",
                    issuer |-> "Fetch.ai Academy",
                    issueDate |-> "2023-02-10",
                    verificationStatus |-> "VERIFIED",
                    did |-> "did:example:987654321zyxwvuts",
                    proofMethod |-> "Ed25519 Signature"
                ],
                [
                    type |-> "Degree",
                    name |-> "Master of Engineering",
                    issuer |-> "MIT",
                    issueDate |-> "2021-05-20",
                    verificationStatus |-> "VERIFIED",
                    did |-> "did:example:abcdef123456789",
                    proofMethod |-> "ECDSA Signature"
                ]
            >>
        ],
        alex_chen |-> [
            name |-> "Alex Chen",
            credentials |-> <<
                [
                    type |-> "Certification",
                    name |-> "Fetch.ai Certified Agent Developer",
                    issuer |-> "Fetch.ai Foundation",
                    issueDate |-> "2023-11-05",
                    verificationStatus |-> "VERIFIED",
                    did |-> "did:example:fetchai12345",
                    proofMethod |-> "Secp256k1 Signature"
                ]
            >>
        ]
    ]

\* simulated_supply_chains of supply_chain.py
simulated_supply_chains ==
    [
        costa_rica_coffee |-> [
            name |-> "Organic Fair Trade Coffee",
            manufacturer |-> "Ethical Beans Co.",
            chain |-> <<
                [
                    stage |-> "Harvesting",
                    location |-> "Costa Rica",
                    timestamp |-> "2023-09-15T08:30:00Z",
                    verificationMethod |-> "IoT Sensors + Blockchain",
                    verifier |-> "AgriVerify DAO"
                ],
                [
                    stage |-> "Processing",
                    location |-> "San Jose, Costa Rica",
                    timestamp |-> "2023-09-20T14:20:00Z",
                    verificationMethod |-> "QR Code Scanning + Agent Verification",
                    verifier |-> "SupplyTrust Network"
                ],
                [
                    stage |-> "Shipping",
                    location |-> "Atlantic Ocean",
                    timestamp |-> "2023-10-05T10:15:00Z",
                    verificationMethod |-> "GPS Tracking + Temperature Sensors",
                    verifier |-> "ShipChain Collective"
                ],
                [
                    stage |-> "Distribution Center",
                    location |-> "Miami, FL, USA",
                    timestamp |-> "2023-10-15T16:40:00Z",
                    verificationMethod |-> "RFID + Blockchain Verification",
                    verifier |-> "DistributionTrust Inc."
                ]
            >>,
            certifications |-> <<"Fair Trade", "Organic", "Rainforest Alliance">>,
            carbonFootprint |-> "2.3kg CO2e (verified)",
            blockchainRecords |-> "fetch://supplychain/costa_rica_coffee"
        ],
        ecophone_x1 |-> [
            name |-> "EcoPhone X1",
            manufacturer |-> "GreenTech Electronics",
            chain |-> <<
                [
                    stage |-> "Component Sourcing",
                    location |-> "Multiple (see detailed report)",
                    timestamp |-> "2023-08-10T09:00:00Z",
                    verificationMethod |-> "Supplier Attestations + Audits",
                    verifier |-> "ComponentVerify Network"
                ],
                [
                    stage |-> "Assembly",
                    location |-> "Vietnam",
                    timestamp |-> "2023-08-25T13:45:00Z",
                    verificationMethod |-> "Manufacturing Process Verification",
                    verifier |-> "ProductIntegrity DAO"
                ],
                [
                    stage |-> "Quality Control",
                    location |-> "Vietnam",
                    timestamp |-> "2023-08-27T10:30:00Z",
                    verificationMethod |-> "Automated Testing + Human Verification",
                    verifier |-> "QualityChain Network"
                ],
                [
                    stage |-> "Distribution",
                    location |-> "Global Distribution Network",
                    timestamp |-> "2023-09-10T08:20:00Z",
                    verificationMethod |-> "Logistics Tracking + Blockchain",
                    verifier |-> "LogisticsVerify Alliance"
                ]
            >>,
            certifications |-> <<
                "Fair Labor",
                "Sustainable Electronics",
                "Conflict-Free Minerals"
            >>,
            carbonFootprint |-> "18.5kg CO2e (verified)",
            blockchainRecords |-> "fetch://supplychain/ecophone_x1"
        ]
    ]

\* simulated_carbon_data of carbon_footprint.py (the euro sign of the offset
\* costs is written EUR)
SimulatedCarbonData ==
    [
        product |-> [
            macbook_pro |-> [
                name |-> "EcoBook Pro 2023",
                manufacturer |-> "GreenTech Inc.",
                totalFootprint |-> "185.3",
                footprintBreakdown |-> [
                    manufacturing |-> "142.8",
                    transportation |-> "12.5",
                    usage |-> "30.0",
                    endOfLife |-> "0.0"
                ],
                certifications |-> <<"Carbon Trust", "Energy Star", "EPEAT Gold">>,
                methodology |-> "ISO 14067 / GHG Protocol",
                verificationBody |-> "ClimateVerify Alliance",
                verificationDate |-> "2023-07-15"
            ],
            sustainable_blend |-> [
                name |-> "Sustainable Blend Coffee",
                manufacturer |-> "EcoBeans Co.",
                totalFootprint |-> "0.15",
                footprintBreakdown |-> [
                    farming |-> "0.05",
                    processing |-> "0.03",
                    packaging |-> "0.02",
                    transportation |-> "0.04",
                    preparation |-> "0.01"
                ],
                offsetting |-> "100% offset through verified reforestation projects",
                certifications |-> <<"Rainforest Alliance", "Carbon Neutral Product">>,
                methodology |-> "PAS 2050",
                verificationBody |-> "GreenCertify DAO",
                verificationDate |-> "2023-08-10"
            ]
        ],
        company |-> [
            greencorp |-> [
                name |-> "GreenCorp Technologies",
                industry |-> "Technology",
                totalEmissions |-> "12500.0",
                emissionsBreakdown |-> [
                    scope1 |-> "2000.0",
                    scope2 |-> "8000.0",
                    scope3 |-> "2500.0"
                ],
                reductionTarget |-> "50% by 2030, Net Zero by 2040",
                verificationStandard |-> "GHG Protocol Corporate Standard",
                verifier |-> "ClimateAccounting Consortium",
                verificationDate |-> "2023-04-20"
            ],
            fashion_forward |-> [
                name |-> "FashionX Sustainable Apparel",
                industry |-> "Fashion",
                totalEmissions |-> "18700.0",
                emissionsBreakdown |-> [
                    scope1 |-> "1200.0",
                    scope2 |-> "4500.0",
                    scope3 |-> "13000.0"
                ],
                reductionActions |-> <<
                    "100% renewable energy in owned facilities",
                    "Sustainable materials sourcing",
                    "Supply chain optimization"
                >>,
                reductionTarget |-> "Net Zero by 2035",
                verificationStandard |-> "Science Based Targets initiative (SBTi)",
                verifier |-> "SustainableVerify Network",
                verificationDate |-> "2023-03-15"
            ]
        ],
        activity |-> [
            london_nyc_flight |-> [
                type |-> "Flight",
                route |-> "London to New York (economy)",
                distance |-> 5585,
                footprint |-> "986.0",
                calculationMethod |-> "DEFRA 2023 emission factors",
                verifier |-> "TravelImpact Verifiers",
                offsetOptions |-> <<
                    [project |-> "Wind Energy India", cost |-> "EUR12.50"],
                    [project |-> "Reforestation Brazil", cost |-> "EUR15.75"]
                >>
            ],
            california_electricity |-> [
                type |-> "Electricity Consumption",
                location |-> "California, USA",
                amount |-> 1000,
                footprint |-> "210.0",
                gridMix |-> [
                    renewable |-> "33.0",
                    natural_gas |-> "40.0",
                    nuclear |-> "15.0",
                    coal |-> "10.0",
                    other |-> "2.0"
                ],
                calculationMethod |-> "eGRID 2022 (location-based)",
                verifier |-> "GridImpact Alliance",
                verificationDate |-> "2023-02-10"
            ]
        ]
    ]

\* simulated_reputation_data of reputation_score.py
simulated_reputation_data ==
    [
        alex_developer |-> [
            general |-> [
                name |-> "Alex Rodriguez",
                did |-> "did:fetch:alex_developer",
                overallScore |-> 92,
                activeScoreProof |-> "bafybeigdyrzt5sfp7udm7hu76uh7y26nf3efuylqabf3oclgtqy55fbzdi",
                contributionStats |-> [
                    totalContributions |-> 215,
                    projectsContributed |-> 12,
                    firstContribution |-> "2021-02-18"
                ],
                reputationBreakdown |-> [
                    codeQuality |-> 95,
                    projectCompletion |-> 90,
                    communityEngagement |-> 88,
                    documentation |-> 85
                ],
                topSkills |-> <<"Rust", "Smart Contracts", "Agent Development">>,
                verificationMethod |-> "Multi-Source Attestation",
                attesters |-> <<"GitHub", "Fetch.ai Network", "DevDAO">>
            ],
            developer |-> [
                name |-> "Alex Rodriguez",
                did |-> "did:fetch:alex_developer",
                developerScore |-> 95,
                codeStats |-> [
                    repositories |-> 32,
                    pullRequests |-> 287,
                    codeReviews |-> 342,
                    issuesClosed |-> 156
                ],
                languages |-> <<
                    [name |-> "Rust", proficiency |-> 98],
                    [name |-> "Python", proficiency |-> 92],
                    [name |-> "Solidity", proficiency |-> 88]
                >>,
                significantProjects |-> <<
                    [
                        name |-> "Agent Framework Extension",
                        role |-> "Lead Developer",
                        impact |-> "High"
                    ],
                    [
                        name |-> "Smart Contract Auditing Tool",
                        role |-> "Contributor",
                        impact |-> "Medium"
                    ]
                >>,
                verificationMethod |-> "Code Repository Analysis + Peer Attestation",
                attesters |-> <<"GitHub", "GitLab", "Code Review DAO">>
            ]
        ],
        decentra_dao |-> [
            general |-> [
                name |-> "DecentraGov DAO",
                did |-> "did:fetch:decentra_dao",
                overallScore |-> 89,
                activeScoreProof |-> "bafybeihkqhjuk6bnlr6xmqkxheh4oewvqllzwgv3vdgdsfyqgd6d2hld7e",
                governanceStats |-> [
                    members |-> 1250,
                    proposalsCreated |-> 87,
                    votingParticipation |-> "68%",
                    treasurySize |-> "485,000 USDC"
                ],
                reputationBreakdown |-> [
                    transparency |-> 94,
                    proposalExecution |-> 87,
                    communityEngagement |-> 91,
                    fundManagement |-> 85
                ],
                verificationMethod |-> "On-Chain Governance Analysis",
                attesters |-> <<
                    "DAOstats",
                    "Governance Observer",
                    "Blockchain Analytics Network"
                >>
            ],
            contributor |-> [
                name |-> "DecentraGov DAO",
                did |-> "did:fetch:decentra_dao",
                contributorReputation |-> 91,
                contributionStats |-> [
                    activeDuration |-> "2.5 years",
                    contributorsReward |-> "Fair (verified)",
                    onboardingQuality |-> "Excellent",
                    retentionRate |-> "78%"
                ],
                significantContributions |-> <<
                    [
                        name |-> "Open Source AI Model",
                        type |-> "Technology",
                        impact |-> "High"
                    ],
                    [
                        name |-> "Governance Framework",
                        type |-> "Protocol",
                        impact |-> "Medium"
                    ]
                >>,
                verificationMethod |-> "Contributor Experience Verification",
                attesters |-> <<"ContributorBoard", "WorkDAO", "Open Source Alliance">>
            ]
        ],
        trustdata_service |-> [
            general |-> [
                name |-> "TrustData Verification Service",
                did |-> "did:fetch:trustdata_service",
                overallScore |-> 96,
                activeScoreProof |-> "bafybeiczsscdsbs7ffqz55asqdf3smv6klcw3gofszvwlyarci47bgf354",
                serviceStats |-> [
                    uptime |-> "99.98%",
                    users |-> 12850,
                    launchDate |-> "2022-05-15",
                    verifiedTransactions |-> 1287650
                ],
                reputationBreakdown |-> [
                    reliability |-> 98,
                    accuracy |-> 97,
                    security |-> 95,
                    support |-> 92
                ],
                verificationMethod |-> "Service Quality Attestation",
                attesters |-> <<
                    "ServiceRating DAO",
                    "User Feedback Oracle",
                    "Security Audit Collective"
                >>
            ],
            service |-> [
                name |-> "TrustData Verification Service",
                did |-> "did:fetch:trustdata_service",
                serviceScore |-> 97,
                performanceMetrics |-> [
                    responseTime |-> "0.3 seconds (avg)",
                    dataAccuracy |-> "99.7%",
                    costEfficiency |-> "High",
                    securityIncidents |-> "None (verified)"
                ],
                complianceCertifications |-> <<"ISO 27001", "GDPR Compliant", "SOC 2">>,
                customerSatisfaction |-> "4.8/5.0 (based on 825 verified reviews)",
                verificationMethod |-> "Independent Service Auditing",
                attesters |-> <<
                    "TechAudit Alliance",
                    "User Satisfaction Oracle",
                    "Compliance Verification Network"
                >>
            ]
        ]
    ]

\* an alias table with a chained entry: the target of "alex" is an alias key
name_mappings_chained ==
    [
        decentragov_dao |-> "decentra_dao",
        decentragov |-> "decentra_dao",
        decentra_gov_dao |-> "decentra_dao",
        decentrag_dao |-> "decentra_dao",
        alex_rodriguez |-> "alex_developer",
        alex |-> "alex_rodriguez",
        rodriguez |-> "alex_developer"
    ]

\* name_mappings of reputation_score.py
name_mappings ==
    [
        decentragov_dao |-> "decentra_dao",
        decentragov |-> "decentra_dao",
        decentra_gov_dao |-> "decentra_dao",
        decentrag_dao |-> "decentra_dao",
        alex_rodriguez |-> "alex_developer",
        alex |-> "alex_developer",
        rodriguez |-> "alex_developer"
    ]

\* the reference tables the resolvers read
stores == <<simulated_credentials, simulated_supply_chains,
            simulated_carbon_data, simulated_reputation_data>>

----------------------------------------------------------------------------
(* Identifier Normalizer *)

\* carbon_footprint.normalize_carbon_identifier
normalize_carbon_identifier(identifier) ==
    IF ~Truthy(identifier) THEN identifier ELSE lower(identifier)

\* reputation_score.normalize_reputation_identifier
normalize_reputation_identifier(identifier) ==
    IF ~Truthy(identifier) THEN identifier
    ELSE Get(name_mappings, lower(identifier), lower(identifier))

\* chat_protocol_integration.normalize_identifier
normalize_identifier(identifier, data_type) ==
    IF ~Truthy(identifier) THEN identifier
    ELSE IF data_type = "education_credential"
         THEN replace_spaces(lower(identifier))
    ELSE IF data_type = "reputation_score"
         THEN normalize_reputation_identifier(identifier)
    ELSE identifier

----------------------------------------------------------------------------
(* TTL Cache: the check and the insert every resolver writes inline *)

\* the freshness test with the bound included: an entry of age 300 is served
CacheFresh_age_included(cache, cache_key, t) ==
    /\ cache_key \in DOMAIN cache
    /\ (t - cache[cache_key].cached_at) <= CACHE_EXPIRY_SECONDS

\* cache_key in cache and (utcnow() - cache[cache_key]["cached_at"])
\*     .total_seconds() < CACHE_EXPIRY_SECONDS
CacheFresh(cache, cache_key, t) ==
    /\ cache_key \in DOMAIN cache
    /\ (t - cache[cache_key].cached_at) < CACHE_EXPIRY_SECONDS

\* the insert with a sweep: the entries that are no longer valid are dropped
CachePut_sweeping(cache, cache_key, data, t) ==
    (cache_key :> [data |-> data, cached_at |-> t])
        @@ [k \in {k \in DOMAIN cache : CacheFresh(cache, k, t)} |-> cache[k]]

\* cache[cache_key] = {"data": data, "cached_at": utcnow()}
CachePut(cache, cache_key, data, t) ==
    (cache_key :> [data |-> data, cached_at |-> t]) @@ cache

\* the value of a resolver that also remembers what it did not find: an error
\* envelope leaves an entry without a record under the key of the call
Outcome_caching_errors(envelope, cache, locals) ==
    [envelope |-> envelope,
     cache |-> IF "error_message" \in DOMAIN envelope /\ "cache_key" \in DOMAIN locals
               THEN (locals.cache_key :> [data |-> None, cached_at |-> 0]) @@ cache
               ELSE cache,
     locals |-> locals]

\* the value a resolver returns: its envelope, its cache afterwards, and the
\* locals it computed on the way
Outcome(envelope, cache, locals) ==
    [envelope |-> envelope, cache |-> cache, locals |-> locals]

----------------------------------------------------------------------------
(* education_credentials.fetch_education_credential *)

\* base64.b32encode(identifier.encode()).decode()[:16].lower(): sixteen
\* base32 characters carry the first ten bytes of the identifier
b32_prefix(identifier) ==
    <<"b32", SubSeq(identifier, 1, IF Len(identifier) < 10 THEN Len(identifier) ELSE 10)>>

\* a cache key that leaves the identifier out
education_cache_key_shared(identifier) == "education_"

\* f"education_{identifier}"
education_cache_key(identifier) == "education_" \o identifier

fetch_education_credential(identifier, query_details, timestamp, cache, data, t) ==
    LET cache_key == education_cache_key(identifier)
        hit       == CacheFresh(cache, cache_key, t)
        in_store  == identifier \in DOMAIN data
        has_data  == hit \/ in_store            \* edu_data is not None
        edu_data  == IF hit THEN cache[cache_key].data ELSE data[identifier]
        cache2    == IF ~hit /\ in_store
                     THEN CachePut(cache, cache_key, data[identifier], t)
                     ELSE cache
        locals    == [cache_key |-> cache_key,
                        key_in_cache |-> cache_key \in DOMAIN cache,
                        cache_hit |-> hit,
                        store_read |-> ~hit]
    IN  IF has_data
        THEN Outcome(
               [request_data_type |-> "education_credential",
                request_identifier |-> identifier,
                source_description |->
                    "Verifiable Credentials System (Decentralized Identity Network)",
                data_payload |->
                    [profile |-> [name |-> edu_data.name,
                                  identifierDid |-> <<"did:fetch:", b32_prefix(identifier)>>],
                     credentials |-> edu_data.credentials,
                     verificationProof |-> sha256(edu_data)],
                verification_summary |->
                    "Credentials verified using decentralized identity protocols. Digital signatures validated against issuer DIDs.",
                timestamp |-> timestamp],
               cache2, locals)
        ELSE Outcome(
               [request_data_type |-> "education_credential",
                request_identifier |-> identifier,
                source_description |-> "Verifiable Credentials System",
                data_payload |-> EmptyDict,
                verification_summary |->
                    "No verified credentials found for this identifier.",
                timestamp |-> timestamp,
                error_message |->
                    "No education credentials found for identifier '" \o identifier \o "'."],
               cache2, locals)

----------------------------------------------------------------------------
(* supply_chain.fetch_supply_chain_status *)

\* f"supply_chain_{identifier}"
supply_chain_cache_key(identifier) == "supply_chain_" \o identifier

fetch_supply_chain_status(identifier, query_details, timestamp, cache, data, t) ==
    LET cache_key   == supply_chain_cache_key(identifier)
        hit         == CacheFresh(cache, cache_key, t)
        in_store    == identifier \in DOMAIN data
        has_data    == hit \/ in_store          \* supply_data is not None
        supply_data == IF hit THEN cache[cache_key].data ELSE data[identifier]
        cache2      == IF ~hit /\ in_store
                       THEN CachePut(cache, cache_key, data[identifier], t)
                       ELSE cache
        locals      == [cache_key |-> cache_key,
                        key_in_cache |-> cache_key \in DOMAIN cache,
                        cache_hit |-> hit,
                        store_read |-> ~hit]
    IN  IF has_data
        THEN Outcome(
               [request_data_type |-> "supply_chain_status",
                request_identifier |-> identifier,
                source_description |->
                    "Distributed Supply Chain Verification Network",
                data_payload |->
                    [product |-> [name |-> supply_data.name,
                                  manufacturer |-> supply_data.manufacturer],
                     supplyChain |-> supply_data.chain,
                     certifications |-> supply_data.certifications,
                     sustainability |->
                         [carbonFootprint |-> supply_data.carbonFootprint],
                     verificationProof |->
                         [method |-> "Decentralized Ledger + Agent Consensus",
                          hash |-> sha256(supply_data),
                          blockchainReference |-> supply_data.blockchainRecords]],
                verification_summary |->
                    "Supply chain data verified through multiple attestation methods including IoT sensors, RFID tracking, and blockchain verification by independent verifier networks.",
                timestamp |-> timestamp],
               cache2, locals)
        ELSE Outcome(
               [request_data_type |-> "supply_chain_status",
                request_identifier |-> identifier,
                source_description |-> "Supply Chain Verification Network",
                data_payload |-> EmptyDict,
                verification_summary |->
                    "No supply chain data found for this product identifier.",
                timestamp |-> timestamp,
                error_message |->
                    "No supply chain information found for product identifier '"
                        \o identifier \o "'."],
               cache2, locals)

----------------------------------------------------------------------------
(* carbon_footprint.fetch_carbon_footprint *)

\* a scan that looks at the companies first
ScopeOrder_company_first == <<"company", "product", "activity">>

\* the scan order of the auto-detection loop
ScopeOrder == <<"product", "company", "activity">>

\* requested_scope: the scope query_details asks for, or None
requested_scope(query_details) ==
    IF ~Truthy(query_details) THEN None
    ELSE IF Contains("scope=company", query_details) THEN "company"
    ELSE IF Contains("scope=product", query_details) THEN "product"
    ELSE IF Contains("scope=activity", query_details) THEN "activity"
    ELSE None

\* detected_scope: the first scope of the scan that holds the identifier, or None
detected_scope(data, normalized_identifier) ==
    IF \E i \in 1..Len(ScopeOrder) : normalized_identifier \in DOMAIN data[ScopeOrder[i]]
    THEN ScopeOrder[CHOOSE i \in 1..Len(ScopeOrder) :
            /\ normalized_identifier \in DOMAIN data[ScopeOrder[i]]
            /\ \A j \in 1..(i - 1) : normalized_identifier \notin DOMAIN data[ScopeOrder[j]]]
    ELSE None

\* data_scope with the priorities exchanged: the auto-detected scope first,
\* the requested scope only when nothing was detected
data_scope_detection_first(data, normalized_identifier, query_details) ==
    LET requested == requested_scope(query_details)
        detected  == detected_scope(data, normalized_identifier)
    IN  IF detected # None THEN detected
        ELSE IF requested # None /\ normalized_identifier \in DOMAIN data[requested]
        THEN requested
        ELSE "product"

\* data_scope with the auto-detected scope left out: the requested scope if
\* it holds the identifier, product otherwise
data_scope_without_detection(data, normalized_identifier, query_details) ==
    LET requested == requested_scope(query_details)
    IN  IF requested # None /\ normalized_identifier \in DOMAIN data[requested]
        THEN requested
        ELSE "product"

\* data_scope: the final scope to use
data_scope(data, normalized_identifier, query_details) ==
    LET requested == requested_scope(query_details)
        detected  == detected_scope(data, normalized_identifier)
    IN  IF requested # None /\ normalized_identifier \in DOMAIN data[requested]
        THEN requested
        ELSE IF detected # None THEN detected
        ELSE "product"

\* the data_payload of a successful envelope, by scope
carbon_payload(scope, carbon_data, verification_proof) ==
    IF scope = "product"
    THEN [productInfo |-> [name |-> carbon_data.name,
                           manufacturer |-> carbon_data.manufacturer],
          carbonFootprint |-> [total |-> carbon_data.totalFootprint,
                               unit |-> "kg CO2e",
                               breakdown |-> carbon_data.footprintBreakdown],
          certifications |-> Get(carbon_data, "certifications", <<>>),
          verification |-> [methodology |-> Get(carbon_data, "methodology", ""),
                            verifier |-> Get(carbon_data, "verificationBody", ""),
                            date |-> Get(carbon_data, "verificationDate", ""),
                            proof |-> verification_proof]]
    ELSE IF scope = "company"
    THEN [companyInfo |-> [name |-> carbon_data.name,
                           industry |-> carbon_data.industry],
          emissions |-> [total |-> carbon_data.totalEmissions,
                         unit |-> "metric tons CO2e",
                         breakdown |-> carbon_data.emissionsBreakdown],
          targets |-> Get(carbon_data, "reductionTarget", ""),
          verification |-> [standard |-> Get(carbon_data, "verificationStandard", ""),
                            verifier |-> Get(carbon_data, "verifier", ""),
                            date |-> Get(carbon_data, "verificationDate", ""),
                            proof |-> verification_proof]]
    ELSE [activityInfo |-> [type |-> carbon_data.type,
                            details |-> FirstOf(carbon_data, <<"route", "location">>, "")],
          carbonFootprint |-> [total |-> carbon_data.footprint,
                               unit |-> "kg CO2e",
                               distance |-> Get(carbon_data, "distance", None),
                               amount |-> Get(carbon_data, "amount", None)],
          methodology |-> Get(carbon_data, "calculationMethod", ""),
          verification |-> [verifier |-> Get(carbon_data, "verifier", ""),
                            date |-> Get(carbon_data, "verificationDate", ""),
                            proof |-> verification_proof]]

\* the error_message of the not-found envelope
carbon_error_message(identifier, requested, detected) ==
    IF requested # None
    THEN "No carbon footprint information found for " \o requested
            \o " identifier '" \o identifier \o "'."
    ELSE IF detected = None
    THEN "No carbon footprint information found for identifier '" \o identifier
            \o "' in any scope (product, company, activity)."
    ELSE "Error retrieving carbon footprint information for " \o detected
            \o " '" \o identifier \o "'."

\* f"carbon_{data_scope}_{normalized_identifier}"
carbon_cache_key(scope, normalized_identifier) ==
    "carbon_" \o scope \o "_" \o normalized_identifier

fetch_carbon_footprint(identifier, query_details, timestamp, cache, data, t) ==
    LET normalized_identifier == normalize_carbon_identifier(identifier)
        requested   == requested_scope(query_details)
        detected    == detected_scope(data, normalized_identifier)
        scope       == data_scope(data, normalized_identifier, query_details)
        cache_key   == carbon_cache_key(scope, normalized_identifier)
        hit         == CacheFresh(cache, cache_key, t)
        in_store    == normalized_identifier \in DOMAIN data[scope]
        has_data    == hit \/ in_store          \* carbon_data is not None
        carbon_data == IF hit THEN cache[cache_key].data
                       ELSE data[scope][normalized_identifier]
        cache2      == IF ~hit /\ in_store
                       THEN CachePut(cache, cache_key, data[scope][normalized_identifier], t)
                       ELSE cache
        locals      == [normalized_identifier |-> normalized_identifier,
                        requested_scope |-> requested,
                        detected_scope |-> detected,
                        data_scope |-> scope,
                        cache_key |-> cache_key,
                        key_in_cache |-> cache_key \in DOMAIN cache,
                        cache_hit |-> hit,
                        store_read |-> ~hit]
    IN  IF has_data
        THEN Outcome(
               [request_data_type |-> "carbon_footprint",
                request_identifier |-> identifier,
                source_description |-> "Verified Carbon Accounting Network",
                data_payload |->
                    carbon_payload(scope, carbon_data,
                        [method |-> "Multi-Attestation Protocol",
                         hash |-> sha256(carbon_data),
                         timestamp |-> timestamp]),
                verification_summary |->
                    "Carbon footprint data verified following "
                    \o FirstOf(carbon_data, <<"methodology", "verificationStandard">>,
                               "international standards")
                    \o " by "
                    \o FirstOf(carbon_data, <<"verificationBody", "verifier">>,
                               "accredited verifier")
                    \o ".",
                timestamp |-> timestamp],
               cache2, locals)
        ELSE Outcome(
               [request_data_type |-> "carbon_footprint",
                request_identifier |-> identifier,
                source_description |-> "Carbon Footprint Verification Network",
                data_payload |-> EmptyDict,
                verification_summary |-> "No carbon footprint data found.",
                timestamp |-> timestamp,
                error_message |-> carbon_error_message(identifier, requested, detected)],
               cache2, locals)

----------------------------------------------------------------------------
(* reputation_score.fetch_reputation_score *)

\* requested_aspect: the aspect query_details asks for, or None
requested_aspect(query_details) ==
    IF ~Truthy(query_details) THEN None
    ELSE IF Contains("aspect=developer", query_details) THEN "developer"
    ELSE IF Contains("aspect=contributor", query_details) THEN "contributor"
    ELSE IF Contains("aspect=service", query_details) THEN "service"
    ELSE None

\* reputation_aspect that looks at the identifier only, never at the request
reputation_aspect_unrequested(available_aspects, normalized_identifier, query_details) ==
    IF startswith(normalized_identifier, "dev") /\ "developer" \in available_aspects
    THEN "developer"
    ELSE IF startswith(normalized_identifier, "svc") /\ "service" \in available_aspects
    THEN "service"
    ELSE "general"

\* reputation_aspect with the literals of the substring tests in lower case
reputation_aspect_lower_literals(available_aspects, normalized_identifier, query_details) ==
    LET requested == requested_aspect(query_details)
    IN  IF requested # None /\ requested \in available_aspects
        THEN requested
        ELSE IF /\ "developer" \in available_aspects
                /\ Contains("developer", lower(normalized_identifier))
        THEN "developer"
        ELSE IF /\ "service" \in available_aspects
                /\ Contains("service", lower(normalized_identifier))
        THEN "service"
        ELSE IF /\ "contributor" \in available_aspects
                /\ Contains("dao", lower(normalized_identifier))
        THEN "contributor"
        ELSE "general"

\* reputation_aspect: the aspect to return for a known entity
reputation_aspect(available_aspects, normalized_identifier, query_details) ==
    LET requested == requested_aspect(query_details)
    IN  IF requested # None /\ requested \in available_aspects
        THEN requested
        ELSE IF /\ "developer" \in available_aspects
                /\ Contains("Developer", lower(normalized_identifier))
        THEN "developer"
        ELSE IF /\ "service" \in available_aspects
                /\ Contains("Service", lower(normalized_identifier))
        THEN "service"
        ELSE IF /\ "contributor" \in available_aspects
                /\ Contains("DAO", lower(normalized_identifier))
        THEN "contributor"
        ELSE IF /\ startswith(normalized_identifier, "dev")
                /\ "developer" \in available_aspects
        THEN "developer"
        ELSE IF /\ startswith(normalized_identifier, "svc")
                /\ "service" \in available_aspects
        THEN "service"
        ELSE "general"

\* the order in which the dataset writes an entity's aspects
AspectOrder == <<"general", "developer", "contributor", "service">>

\* ", ".join(available_aspects)
join_aspects(available_aspects) ==
    LET F[i \in 0..Len(AspectOrder)] ==
            IF i = 0 THEN ""
            ELSE IF AspectOrder[i] \notin available_aspects THEN F[i - 1]
            ELSE IF F[i - 1] = "" THEN AspectOrder[i]
            ELSE F[i - 1] \o ", " \o AspectOrder[i]
    IN  F[Len(AspectOrder)]

\* ", ".join(reputation_data["attesters"])
join_strings(list) ==
    LET F[i \in 0..Len(list)] ==
            IF i = 0 THEN ""
            ELSE IF i = 1 THEN list[1]
            ELSE F[i - 1] \o ", " \o list[i]
    IN  F[Len(list)]

\* the data_payload of a successful envelope
reputation_payload(reputation_data, timestamp) ==
    [entityInfo |-> [name |-> reputation_data.name,
                     decentralizedId |-> reputation_data.did],
     reputationScores |->
        [overall |-> FirstOf(reputation_data,
                        <<"overallScore", "developerScore",
                          "contributorReputation", "serviceScore">>, None),
         breakdown |-> Get(reputation_data, "reputationBreakdown", EmptyDict)],
     statistics |-> FirstOf(reputation_data,
                        <<"contributionStats", "codeStats", "governanceStats",
                          "contributionStats", "serviceStats", "performanceMetrics">>,
                        EmptyDict),
     highlights |-> FirstOf(reputation_data,
                        <<"topSkills", "significantProjects",
                          "significantContributions", "complianceCertifications">>,
                        <<>>),
     verification |-> [method |-> reputation_data.verificationMethod,
                       attesters |-> reputation_data.attesters,
                       proofReference |-> Get(reputation_data, "activeScoreProof", ""),
                       timestamp |-> timestamp]]

\* a key of the entity alone, the same for all its aspects
reputation_cache_key_of_entity(normalized_identifier, aspect) ==
    "reputation_" \o normalized_identifier

\* f"reputation_{normalized_identifier}_{reputation_aspect}"
reputation_cache_key(normalized_identifier, aspect) ==
    "reputation_" \o normalized_identifier \o "_" \o aspect

\* the part of fetch_reputation_score after the entity was found: entity is
\* simulated_reputation_data[normalized_identifier]
resolve_reputation_aspect(identifier, normalized_identifier, entity, query_details, timestamp, cache, t) ==
    LET available_aspects == DOMAIN entity
        requested   == requested_aspect(query_details)
        aspect      == reputation_aspect(available_aspects, normalized_identifier,
                                         query_details)
        cache_key   == reputation_cache_key(normalized_identifier, aspect)
        hit         == CacheFresh(cache, cache_key, t)
        in_store    == aspect \in available_aspects
        has_data    == hit \/ in_store          \* reputation_data is not None
        reputation_data == IF hit THEN cache[cache_key].data ELSE entity[aspect]
        cache2      == IF ~hit /\ in_store
                       THEN CachePut(cache, cache_key, entity[aspect], t)
                       ELSE cache
        locals      == [normalized_identifier |-> normalized_identifier,
                        requested_aspect |-> requested,
                        reputation_aspect |-> aspect,
                        cache_key |-> cache_key,
                        key_in_cache |-> cache_key \in DOMAIN cache,
                        cache_hit |-> hit,
                        store_read |-> ~hit]
    IN  IF has_data
        THEN Outcome(
               [request_data_type |-> "reputation_score",
                request_identifier |-> identifier,
                source_description |-> "Decentralized Reputation Network",
                data_payload |-> reputation_payload(reputation_data, timestamp),
                verification_summary |->
                    "Reputation data verified through "
                    \o reputation_data.verificationMethod
                    \o " with attestations from "
                    \o join_strings(reputation_data.attesters) \o ".",
                timestamp |-> timestamp],
               cache2, locals)
        ELSE Outcome(
               [request_data_type |-> "reputation_score",
                request_identifier |-> identifier,
                source_description |-> "Decentralized Reputation Network",
                data_payload |-> EmptyDict,
                verification_summary |->
                    "No reputation data found for aspect '" \o aspect \o "'.",
                timestamp |-> timestamp,
                error_message |->
                    "No reputation information found for identifier '" \o identifier
                    \o "' with aspect '" \o aspect \o "'. Available aspects: "
                    \o join_aspects(available_aspects) \o "."],
               cache2, locals)

\* fetch_reputation_score without the early return: an unknown entity is
\* taken for an entity without aspects
fetch_reputation_score_no_early_return(identifier, query_details, timestamp, cache, data, t) ==
    LET normalized_identifier == normalize_reputation_identifier(identifier)
    IN  resolve_reputation_aspect(identifier, normalized_identifier,
            IF normalized_identifier \in DOMAIN data
            THEN data[normalized_identifier] ELSE EmptyDict,
            query_details, timestamp, cache, t)

fetch_reputation_score(identifier, query_details, timestamp, cache, data, t) ==
    LET normalized_identifier == normalize_reputation_identifier(identifier)
    IN  IF normalized_identifier \notin DOMAIN data
        THEN Outcome(
               [request_data_type |-> "reputation_score",
                request_identifier |-> identifier,
                source_description |-> "Decentralized Reputation Network",
                data_payload |-> EmptyDict,
                verification_summary |->
                    "No reputation data found for this identifier.",
                timestamp |-> timestamp,
                error_message |->
                    "No reputation information found for identifier '"
                        \o identifier \o "'."],
               cache,
               [normalized_identifier |-> normalized_identifier])
        ELSE resolve_reputation_aspect(identifier, normalized_identifier,
                 data[normalized_identifier], query_details, timestamp, cache, t)

----------------------------------------------------------------------------
(* data_source_handler.fetch_crypto_price *)

\* s.split(sep)[-1]: what follows the last occurrence of sep in s
after_last(s, sep) ==
    LET starts == {i \in 1..(Len(s) - Len(sep) + 1) : SubSeq(s, i, i + Len(sep) - 1) = sep}
        last   == CHOOSE i \in starts : \A j \in starts : j <= i
    IN  IF starts = {} THEN s ELSE SubSeq(s, last + Len(sep), Len(s))

\* What the one upstream call can come back with: a JSON body (api_data, with
\* its printed form), an HTTP error status, a transport error, or any other
\* exception (for example a body that is not JSON).
UpstreamOutcomes ==
    { [kind |-> "json", api_data |-> [bitcoin |-> [usd |-> 67000]],
       text |-> "{'bitcoin': {'usd': 67000}}"],
      [kind |-> "json", api_data |-> [bitcoin |-> [eur |-> 61000]],
       text |-> "{'bitcoin': {'eur': 61000}}"],
      [kind |-> "json", api_data |-> EmptyDict, text |-> "{}"],
      [kind |-> "HTTPStatusError", status_code |-> "429", text |-> "Too Many Requests"],
      [kind |-> "RequestError", text |-> "All connection attempts failed"],
      [kind |-> "Exception", text |-> "Expecting value: line 1 column 1 (char 0)"] }

\* an error envelope that keeps the asset in its payload
crypto_error_with_payload(identifier, timestamp, summary, message) ==
    [request_data_type |-> "crypto_price",
     request_identifier |-> identifier,
     source_description |-> "CoinGecko API",
     data_payload |-> [asset_id |-> identifier],
     verification_summary |-> summary,
     timestamp |-> timestamp,
     error_message |-> message]

crypto_error(identifier, timestamp, summary, message) ==
    [request_data_type |-> "crypto_price",
     request_identifier |-> identifier,
     source_description |-> "CoinGecko API",
     data_payload |-> EmptyDict,
     verification_summary |-> summary,
     timestamp |-> timestamp,
     error_message |-> message]

fetch_crypto_price(identifier, query_details, timestamp, upstream) ==
    LET vs_currency ==
            IF Truthy(query_details) /\ Contains("vs_currency=", query_details)
            THEN after_last(query_details, "vs_currency=")
            ELSE "usd"
        locals == [vs_currency |-> vs_currency, upstream_calls |-> 1]
        envelope ==
            IF upstream.kind = "json"
            THEN IF /\ identifier \in DOMAIN upstream.api_data
                    /\ vs_currency \in DOMAIN upstream.api_data[identifier]
                 THEN [request_data_type |-> "crypto_price",
                       request_identifier |-> identifier,
                       source_description |->
                           "CoinGecko API (https://www.coingecko.com/en/api)",
                       data_payload |->
                           [price |-> upstream.api_data[identifier][vs_currency],
                            currency |-> vs_currency,
                            asset_id |-> identifier],
                       verification_summary |->
                           "Data fetched live from CoinGecko API. Accuracy subject to API provider.",
                       timestamp |-> timestamp]
                 ELSE crypto_error(identifier, timestamp,
                        "Data source did not return expected format or identifier not found.",
                        "Data not found for identifier '" \o identifier
                        \o "' with currency '" \o vs_currency
                        \o "' from CoinGecko. Response: " \o upstream.text)
            ELSE IF upstream.kind = "HTTPStatusError"
            THEN crypto_error(identifier, timestamp,
                    "Error communicating with data source.",
                    "HTTP error fetching data from CoinGecko: "
                    \o upstream.status_code \o " - " \o upstream.text)
            ELSE IF upstream.kind = "RequestError"
            THEN crypto_error(identifier, timestamp,
                    "Error communicating with data source.",
                    "Request error fetching data from CoinGecko: " \o upstream.text)
            ELSE crypto_error(identifier, timestamp,
                    "An unexpected error occurred.",
                    "An unexpected error occurred while fetching data: " \o upstream.text)
    IN  [envelope |-> envelope, locals |-> locals]

----------------------------------------------------------------------------
(* data_source_handler.fetch_verifiable_data: the Fetch Router *)

\* datetime.utcnow().isoformat() + "Z"
isoformat_Z(t) == <<t, "Z">>

\* the if/elif chain comparing data_type itself, not data_type.lower()
dispatch_case_sensitive(data_type) ==
    IF data_type = "crypto_price" THEN "fetch_crypto_price"
    ELSE IF data_type = "education_credential" THEN "fetch_education_credential"
    ELSE IF data_type = "supply_chain_status" THEN "fetch_supply_chain_status"
    ELSE IF data_type = "carbon_footprint" THEN "fetch_carbon_footprint"
    ELSE IF data_type = "reputation_score" THEN "fetch_reputation_score"
    ELSE "none"

\* the resolver the if/elif chain selects, "none" for the else branch
dispatch(data_type) ==
    LET lowered == lower(data_type)
    IN  IF lowered = "crypto_price" THEN "fetch_crypto_price"
        ELSE IF lowered = "education_credential" THEN "fetch_education_credential"
        ELSE IF lowered = "supply_chain_status" THEN "fetch_supply_chain_status"
        ELSE IF lowered = "carbon_footprint" THEN "fetch_carbon_footprint"
        ELSE IF lowered = "reputation_score" THEN "fetch_reputation_score"
        ELSE "none"

\* the else branch with a list of supported types that was not kept up to date
unsupported_envelope_short_list(data_type, identifier, timestamp) ==
    [request_data_type |-> data_type,
     request_identifier |-> identifier,
     source_description |-> "Data Handler System",
     data_payload |-> EmptyDict,
     verification_summary |-> "Data type not supported by this handler.",
     timestamp |-> timestamp,
     error_message |->
        "Unsupported data_type: '" \o data_type
        \o "'. Supported types: 'crypto_price', 'education_credential', 'supply_chain_status', 'carbon_footprint'."]

\* the envelope of the else branch
unsupported_envelope(data_type, identifier, timestamp) ==
    [request_data_type |-> data_type,
     request_identifier |-> identifier,
     source_description |-> "Data Handler System",
     data_payload |-> EmptyDict,
     verification_summary |-> "Data type not supported by this handler.",
     timestamp |-> timestamp,
     error_message |->
        "Unsupported data_type: '" \o data_type
        \o "'. Supported types: 'crypto_price', 'education_credential', 'supply_chain_status', 'carbon_footprint', 'reputation_score'."]

\* the router's return of what resolver number i returned: its envelope, the
\* caches with that resolver's cache replaced, the call's inputs and locals
routed(o, cs, i, base) ==
    [envelope |-> o.envelope,
     caches |-> [cs EXCEPT ![i] = o.cache],
     call |-> base @@ [locals |-> o.locals]]

\* what one call of the router returns and leaves behind, as a function of
\* its arguments, the four caches, the four stores, the clock and (for a
\* price request) what the upstream answers
route(data_type, identifier, query_details, upstream, cs, ds, t) ==
    LET resolver  == dispatch(data_type)
        timestamp == isoformat_Z(t)
        base      == [made |-> TRUE, data_type |-> data_type,
                      identifier |-> identifier,
                      query_details |-> query_details, upstream |-> upstream,
                      resolver |-> resolver]
    IN  IF resolver = "fetch_crypto_price"
        THEN routed(fetch_crypto_price(identifier, query_details, timestamp, upstream)
                        @@ [cache |-> cs[1]],
                    cs, 1, base)
        ELSE IF resolver = "fetch_education_credential"
        THEN routed(fetch_education_credential(identifier, query_details, timestamp,
                                               cs[1], ds[1], t),
                    cs, 1, base)
        ELSE IF resolver = "fetch_supply_chain_status"
        THEN routed(fetch_supply_chain_status(identifier, query_details, timestamp,
                                              cs[2], ds[2], t),
                    cs, 2, base)
        ELSE IF resolver = "fetch_carbon_footprint"
        THEN routed(fetch_carbon_footprint(identifier, query_details, timestamp,
                                           cs[3], ds[3], t),
                    cs, 3, base)
        ELSE IF resolver = "fetch_reputation_score"
        THEN routed(fetch_reputation_score(identifier, query_details, timestamp,
                                           cs[4], ds[4], t),
                    cs, 4, base)
        ELSE [envelope |-> unsupported_envelope(data_type, identifier, timestamp),
              caches |-> cs,
              call |-> base @@ [locals |-> EmptyDict]]

----------------------------------------------------------------------------
(* models.py: the messages the agent sends to itself.  A field that is None
   is left out of the record. *)

VerifiableDataRequest(session_id, data_type, identifier, query_details) ==
    [type |-> "VerifiableDataRequest", session_id |-> session_id,
     data_type |-> data_type, identifier |-> identifier,
     query_details |-> query_details]

ErrorMessage(session_id, error) ==
    [type |-> "ErrorMessage", session_id |-> session_id, error |-> error]

\* VerifiableDataResponse(session_id=..., request_data_type=..., ...) as
\* handle_verifiable_data_request builds it from a dict without error_message
VerifiableDataResponse(session_id, request_data_type, request_identifier, data_dict) ==
    [type |-> "VerifiableDataResponse", session_id |-> session_id,
     request_data_type |-> Get(data_dict, "request_data_type", request_data_type),
     request_identifier |-> Get(data_dict, "request_identifier", request_identifier)]
    @@ [k \in DOMAIN data_dict \cap {"source_description", "timestamp", "data_payload",
                                     "verification_summary"} |-> data_dict[k]]

\* VerifiableDataResponse(session_id=..., request_data_type=...,
\*     request_identifier=..., error_message=...), every other field None
ErrorResponse(session_id, request_data_type, request_identifier, error_message) ==
    [type |-> "VerifiableDataResponse", session_id |-> session_id,
     request_data_type |-> request_data_type,
     request_identifier |-> request_identifier,
     error_message |-> error_message]

----------------------------------------------------------------------------
(* chat_protocol_integration.format_response_for_chat.  The text is the
   sequence of its lines; a line is the tuple of its fixed words and of the
   values printed into it.  A loop over the items of a dict or a list is one
   line holding the dict or list it prints. *)

\* str.upper() on one character
UpperOf ==
    [a |-> "A", b |-> "B", c |-> "C", d |-> "D", e |-> "E", f |-> "F", g |-> "G",
     h |-> "H", i |-> "I", j |-> "J", k |-> "K", l |-> "L", m |-> "M", n |-> "N",
     o |-> "O", p |-> "P", q |-> "Q", r |-> "R", s |-> "S", t |-> "T", u |-> "U",
     v |-> "V", w |-> "W", x |-> "X", y |-> "Y", z |-> "Z"]

UpperChar(c) == IF c \in DOMAIN UpperOf THEN UpperOf[c] ELSE c

IsLetter(c) == c \in DOMAIN UpperOf \/ c \in DOMAIN LowerOf

\* s.upper()
upper(s) ==
    LET F[i \in 0..Len(s)] ==
            IF i = 0 THEN "" ELSE F[i - 1] \o UpperChar(CharAt(s, i))
    IN  F[Len(s)]

\* s.capitalize(): the first character in upper case, the rest in lower case
capitalize(s) ==
    IF s = "" THEN "" ELSE UpperChar(CharAt(s, 1)) \o lower_chars(SubSeq(s, 2, Len(s)))

\* s.replace('_', ' ').title(): every letter that does not follow a letter in
\* upper case, every other one in lower case
data_type_display(s) ==
    LET F[i \in 0..Len(s)] ==
            IF i = 0 THEN ""
            ELSE LET c == IF CharAt(s, i) = "_" THEN " " ELSE CharAt(s, i)
                 IN  F[i - 1] \o (IF i > 1 /\ IsLetter(CharAt(s, i - 1))
                                  THEN LowerChar(c) ELSE UpperChar(c))
    IN  F[Len(s)]

\* a dict or a list is truthy when it is not empty
NonEmpty(d) == DOMAIN d # {}

\* the Error Report of an error_message
error_report(error_message) ==
    << <<"# Error Report">>,
       <<"**Message:** ", error_message>>,
       <<"">>,
       <<"_Please try again or rephrase your request._">> >>

\* dt_object.strftime("%B %d, %Y, %I:%M %p UTC") of the parsed timestamp, or
\* str(timestamp) when it does not parse (None)
formatted_timestamp(response_data) ==
    IF "timestamp" \in DOMAIN response_data
    THEN <<"%B %d, %Y, %I:%M %p UTC", response_data.timestamp[1]>>
    ELSE None

currency_symbols == [USD |-> "$", EUR |-> "EUR-sign", GBP |-> "GBP-sign", JPY |-> "JPY-sign"]

format_crypto_price(response_data, identifier) ==
    LET data_payload == response_data.data_payload
        currency == upper(Get(data_payload, "currency", "usd"))
        asset_name == capitalize(Get(data_payload, "asset_id", identifier))
        price_symbol == Get(currency_symbols, currency, "")
        formatted_price ==
            IF "price" \in DOMAIN data_payload
            THEN <<price_symbol, <<"{:,.2f}", data_payload.price>>, " ", currency>>
            ELSE <<"N/A">>
    IN  << <<"**Asset:** ", asset_name>>,
           <<"**Price:** ", formatted_price>>,
           <<"**Time:** ", formatted_timestamp(response_data)>>,
           <<"**Source:** ", Get(response_data, "source_description", None)>>,
           <<"**Verification:** ", Get(response_data, "verification_summary", None)>> >>

format_education_credential(response_data, identifier) ==
    LET profile == Get(response_data.data_payload, "profile", EmptyDict)
        credentials == Get(response_data.data_payload, "credentials", <<>>)
    IN  << <<"**Individual:** ", Get(profile, "name", identifier)>>,
           <<"**Decentralized ID:** ", Get(profile, "identifierDid", "N/A")>>,
           <<"**Verification Method:** ", Get(response_data, "verification_summary", None)>>,
           <<" ">> >>
        \o (IF NonEmpty(credentials)
            THEN << <<"## Verified Credentials", credentials>> >>
            ELSE << <<"**No credentials found for this identifier.**">> >>)

format_supply_chain_status(response_data, identifier) ==
    LET data_payload == response_data.data_payload
        product == Get(data_payload, "product", EmptyDict)
        chain == Get(data_payload, "supplyChain", <<>>)
        certifications == Get(data_payload, "certifications", <<>>)
        sustainability == Get(data_payload, "sustainability", EmptyDict)
        verification == Get(data_payload, "verificationProof", EmptyDict)
    IN  << <<"**Product:** ", Get(product, "name", identifier)>>,
           <<"**Manufacturer:** ", Get(product, "manufacturer", "N/A")>> >>
        \o (IF NonEmpty(certifications)
            THEN << <<"**Certifications:** ", certifications>> >> ELSE <<>>)
        \o (IF NonEmpty(sustainability)
            THEN << <<"**Carbon Footprint:** ",
                      Get(sustainability, "carbonFootprint", "N/A")>> >>
            ELSE <<>>)
        \o (IF NonEmpty(verification)
            THEN << <<"**Verification Method:** ", Get(verification, "method", "N/A")>>,
                    <<"**Blockchain Reference:** ",
                      Get(verification, "blockchainReference", "N/A")>> >>
            ELSE <<>>)
        \o << <<" ">> >>
        \o (IF NonEmpty(chain) THEN << <<"## Supply Chain Journey", chain>> >> ELSE <<>>)
        \o << <<"**Summary:** ", Get(response_data, "verification_summary", None)>> >>

format_carbon_footprint(response_data, identifier) ==
    LET data_payload == response_data.data_payload
        product_info == Get(data_payload, "productInfo", EmptyDict)
        company_info == Get(data_payload, "companyInfo", EmptyDict)
        activity_info == Get(data_payload, "activityInfo", EmptyDict)
        carbon_data == Get(data_payload, "carbonFootprint", EmptyDict)
        emissions == Get(data_payload, "emissions", EmptyDict)
        verification == Get(data_payload, "verification", EmptyDict)
        entity ==
            IF NonEmpty(product_info)
            THEN <<"Product", Get(product_info, "name", identifier),
                   "Manufacturer: ", Get(product_info, "manufacturer", "N/A")>>
            ELSE IF NonEmpty(company_info)
            THEN <<"Company", Get(company_info, "name", identifier),
                   "Industry: ", Get(company_info, "industry", "N/A")>>
            ELSE IF NonEmpty(activity_info)
            THEN <<"Activity", Get(activity_info, "type", identifier),
                   "Details: ", Get(activity_info, "details", "N/A")>>
            ELSE <<"Entity", identifier, "", "">>
        breakdown(d, title) ==
            IF "breakdown" \in DOMAIN d /\ NonEmpty(d.breakdown)
            THEN << <<" ">>, <<title, d.breakdown, Get(d, "unit", "CO2e")>> >>
            ELSE <<>>
    IN  << <<"**", entity[1], ":** ", entity[2]>>,
           <<"**", entity[3], entity[4], "**">> >>
        \o (IF NonEmpty(carbon_data)
            THEN << <<"**Carbon Footprint:** ", Get(carbon_data, "total", "N/A"), " ",
                      Get(carbon_data, "unit", "CO2e")>> >>
                 \o breakdown(carbon_data, "### Footprint Breakdown")
            ELSE IF NonEmpty(emissions)
            THEN << <<"**Total Emissions:** ", Get(emissions, "total", "N/A"), " ",
                      Get(emissions, "unit", "CO2e")>> >>
                 \o breakdown(emissions, "### Emissions Breakdown")
                 \o (IF "targets" \in DOMAIN data_payload
                     THEN << <<"**Reduction Targets:** ", data_payload.targets>> >>
                     ELSE <<>>)
            ELSE <<>>)
        \o << <<" ">>, <<"### Verification Details">> >>
        \o (IF NonEmpty(verification)
            THEN << <<"**Methodology:** ",
                      Get(verification, "methodology",
                          Get(verification, "standard", "N/A"))>>,
                    <<"**Verifier:** ", Get(verification, "verifier", "N/A")>>,
                    <<"**Date:** ", Get(verification, "date", "N/A")>> >>
            ELSE <<>>)
        \o << <<"**Summary:** ", Get(response_data, "verification_summary", None)>> >>

format_reputation_score(response_data, identifier) ==
    LET data_payload == response_data.data_payload
        entity_info == Get(data_payload, "entityInfo", EmptyDict)
        scores == Get(data_payload, "reputationScores", EmptyDict)
        stats == Get(data_payload, "statistics", EmptyDict)
        highlights == Get(data_payload, "highlights", <<>>)
        verification == Get(data_payload, "verification", EmptyDict)
    IN  << <<"**Entity:** ", Get(entity_info, "name", identifier)>>,
           <<"**Decentralized ID:** ", Get(entity_info, "decentralizedId", "N/A")>> >>
        \o (IF NonEmpty(scores)
            THEN << <<"**Overall Score:** ", Get(scores, "overall", "N/A"), "/100">> >>
                 \o (IF "breakdown" \in DOMAIN scores /\ NonEmpty(scores.breakdown)
                     THEN << <<" ">>, <<"### Score Breakdown", scores.breakdown>> >>
                     ELSE <<>>)
            ELSE <<>>)
        \o (IF NonEmpty(stats)
            THEN << <<" ">>, <<"### Key Statistics", stats>> >> ELSE <<>>)
        \o (IF NonEmpty(highlights)
            THEN << <<" ">>, <<"### Highlights", highlights>> >> ELSE <<>>)
        \o << <<" ">>, <<"### Verification">>,
              <<"**Method:** ", Get(verification, "method", "N/A")>>,
              <<"**Attesters:** ", Get(verification, "attesters", <<"N/A">>)>>,
              <<"**Summary:** ", Get(response_data, "verification_summary", None)>> >>

\* the else branch: any other data type, or a data_payload that is no dict
format_generic(response_data, identifier) ==
    << <<"**Type:** ", data_type_display(response_data.request_data_type)>>,
       <<"**Identifier:** ", identifier>>,
       <<"**Source:** ", Get(response_data, "source_description", None)>>,
       <<"**Time:** ", formatted_timestamp(response_data)>>,
       <<" ">> >>
    \o (IF "data_payload" \in DOMAIN response_data
        THEN << <<"items", response_data.data_payload>> >>
        ELSE << <<"**Data:** ", None>> >>)
    \o << <<" ">>,
          <<"**Verification:** ", Get(response_data, "verification_summary", None)>> >>

\* the renderer the if/elif chain picks: the one of the data type when
\* data_payload is a dict, the generic one otherwise
renderer(response_data) ==
    IF /\ response_data.request_data_type \in
            {"crypto_price", "education_credential", "supply_chain_status",
             "carbon_footprint", "reputation_score"}
       /\ "data_payload" \in DOMAIN response_data
    THEN response_data.request_data_type
    ELSE "generic"

\* the Verifiable Data Report: format_response_for_chat after the check of
\* error_message
verifiable_data_report(response_data) ==
    LET identifier == capitalize(response_data.request_identifier)
        chosen == renderer(response_data)
    IN  << <<"# Verifiable Data Report">>, <<" ">> >>
        \o (CASE chosen = "crypto_price" ->
                   format_crypto_price(response_data, identifier)
              [] chosen = "education_credential" ->
                   format_education_credential(response_data, identifier)
              [] chosen = "supply_chain_status" ->
                   format_supply_chain_status(response_data, identifier)
              [] chosen = "carbon_footprint" ->
                   format_carbon_footprint(response_data, identifier)
              [] chosen = "reputation_score" ->
                   format_reputation_score(response_data, identifier)
              [] OTHER -> format_generic(response_data, identifier))

\* the formatter that looks at error_message only when there is no payload
format_response_for_chat_payload_first(response_data) ==
    IF "data_payload" \in DOMAIN response_data /\ NonEmpty(response_data.data_payload)
    THEN verifiable_data_report(response_data)
    ELSE IF "error_message" \in DOMAIN response_data
            /\ Truthy(response_data.error_message)
    THEN error_report(response_data.error_message)
    ELSE verifiable_data_report(response_data)

format_response_for_chat(response_data) ==
    IF "error_message" \in DOMAIN response_data /\ Truthy(response_data.error_message)
    THEN error_report(response_data.error_message)
    ELSE verifiable_data_report(response_data)

\* create_chat_message(text, end_session): a ChatMessage with the text and,
\* when end_session, the end-session marker
create_chat_message(text, end_session) ==
    [type |-> "ChatMessage", text |-> text, end_session |-> end_session]

----------------------------------------------------------------------------
(* The reference tables and the upstream the router is driven with *)

\* The carbon reference table as a test of the scope priority seeds it: the
\* table of the source, with one identifier registered in a second scope.
\* In the table of the source no identifier is in two scopes.
SeededProduct ==
    [name |-> "GreenCorp Rack Server", manufacturer |-> "GreenCorp Technologies",
     totalFootprint |-> "950.0",
     footprintBreakdown |-> [manufacturing |-> "700.0", usage |-> "250.0"]]

SeededCompany ==
    [name |-> "London NYC Flight Ltd", industry |-> "Aviation",
     totalEmissions |-> "40000.0",
     emissionsBreakdown |-> [scope1 |-> "39000.0", scope2 |-> "1000.0"],
     verificationStandard |-> "GHG Protocol Corporate Standard"]

CarbonStores ==
    { SimulatedCarbonData,
      [SimulatedCarbonData EXCEPT
          !.product = ("greencorp" :> SeededProduct) @@ @],
      [SimulatedCarbonData EXCEPT
          !.company = ("london_nyc_flight" :> SeededCompany) @@ @] }

\* the clock advances between calls by half the cache validity
Advances == {CACHE_EXPIRY_SECONDS \div 2}

\* no upstream call is made
NoUpstream == [kind |-> "none"]

\* the answers the upstream can give to a request: only a price request asks
UpstreamFor(data_type) ==
    IF dispatch(data_type) = "fetch_crypto_price" THEN UpstreamOutcomes ELSE {NoUpstream}

----------------------------------------------------------------------------
(* The state machine *)

EmptyCache == [k \in {} |-> None]

\* the agent after startup, before any message: nothing bound, nothing in
\* flight, nothing sent
AgentIdle ==
    /\ GEMINI_API_KEY = TRUE
    /\ storage = EmptyDict
    /\ inbox = EmptyDict
    /\ pending = EmptyDict
    /\ outbox = EmptyDict
    /\ fetched = EmptyDict
    /\ received = 0
    /\ formatted = [applied |-> FALSE]

\* the state after import: the reference tables as written, empty caches
Init ==
    /\ now = 0
    /\ simulated_carbon_data = SimulatedCarbonData
    /\ education_cache = EmptyCache
    /\ supply_chain_cache = EmptyCache
    /\ carbon_footprint_cache = EmptyCache
    /\ reputation_cache = EmptyCache
    /\ call = [made |-> FALSE]
    /\ result = EmptyDict
    /\ calls = 0
    /\ ticks = 0
    /\ norm = [applied |-> FALSE]
    /\ AgentIdle

\* one call of fetch_verifiable_data, from entry to return
fetch_verifiable_data(data_type, identifier, query_details, upstream) ==
    /\ calls < MaxRequests
    /\ \E r \in {route(data_type, identifier, query_details, upstream,
                       caches, stores, now)} :
           /\ result' = r.envelope
           /\ call' = r.call
           /\ education_cache' = r.caches[1]
           /\ supply_chain_cache' = r.caches[2]
           /\ carbon_footprint_cache' = r.caches[3]
           /\ reputation_cache' = r.caches[4]
    /\ calls' = calls + 1
    /\ UNCHANGED <<now, simulated_carbon_data, ticks, norm, agent>>

\* time passes
Tick(d) ==
    /\ ticks < MaxTicks
    /\ calls < MaxRequests
    /\ now' = now + d
    /\ ticks' = ticks + 1
    /\ UNCHANGED <<simulated_carbon_data, caches, call, result, calls, norm, agent>>

Fetch ==
    \E req \in Requests : \E upstream \in UpstreamFor(req.data_type) :
        fetch_verifiable_data(req.data_type, req.identifier, req.query_details, upstream)

Advance == \E d \in Advances : Tick(d)

Next == Fetch \/ Advance

Spec == Init /\ [][Next]_vars

\* The reputation resolver alone
FetchReputation ==
    \E req \in ReputationAspectRequests :
        fetch_verifiable_data(req.data_type, req.identifier, req.query_details, NoUpstream)

NextReputation == FetchReputation \/ Advance

SpecReputation == Init /\ [][NextReputation]_vars

\* The identifier normalizers alone.  Identifiers are the strings of up to
\* MaxIdentifierLen characters over an upper-case letter, a lower-case one,
\* the space and the underscore, and the names the datasets and the alias
\* table are written for.
IdentifierAlphabet == {"A", "a", " ", "_"}

RECURSIVE StringsUpTo(_)
StringsUpTo(n) ==
    IF n = 0 THEN {""}
    ELSE StringsUpTo(n - 1)
            \cup {s \o c : s \in StringsUpTo(n - 1), c \in IdentifierAlphabet}

NamedIdentifiers ==
    {"John Smith", "john_smith", "Alex Rodriguez", "alex_rodriguez", "Alex",
     "Rodriguez", "DecentraGov_DAO", "DecentraGov", "Decentra_Gov_DAO",
     "decentrag_dao", "decentra_dao", "alex_developer", "MacBook_Pro",
     "Costa_Rica_Coffee", "Bitcoin"}

NormalizerInputs == StringsUpTo(MaxIdentifierLen) \cup NamedIdentifiers

NormalizerTypes ==
    {"crypto_price", "education_credential", "supply_chain_status",
     "carbon_footprint", "reputation_score", "Education_Credential", "stock_price"}

InitNormalize ==
    /\ now = 0
    /\ simulated_carbon_data = SimulatedCarbonData
    /\ education_cache = EmptyCache
    /\ supply_chain_cache = EmptyCache
    /\ carbon_footprint_cache = EmptyCache
    /\ reputation_cache = EmptyCache
    /\ call = [made |-> FALSE]
    /\ result = EmptyDict
    /\ calls = 0
    /\ ticks = 0
    /\ \E identifier \in NormalizerInputs : \E data_type \in NormalizerTypes :
          norm = [applied |-> FALSE, identifier |-> identifier, data_type |-> data_type]
    /\ AgentIdle

\* the normalizer is applied to the identifier, and again to what it returned
Applied(function, once, twice) ==
    /\ ~norm.applied
    /\ norm' = [applied |-> TRUE, function |-> function,
                identifier |-> norm.identifier, data_type |-> norm.data_type,
                once |-> once, twice |-> twice]
    /\ UNCHANGED <<now, simulated_carbon_data, caches, call, result, calls, ticks, agent>>

\* chat_protocol_integration.normalize_identifier(identifier, data_type)
NormalizeIdentifier ==
    \E once \in {normalize_identifier(norm.identifier, norm.data_type)} :
        Applied("normalize_identifier", once,
                normalize_identifier(once, norm.data_type))

\* the normalizer the carbon footprint resolver applies itself
NormalizeCarbonIdentifier ==
    /\ norm.data_type = "carbon_footprint"
    /\ \E once \in {normalize_carbon_identifier(norm.identifier)} :
          Applied("normalize_carbon_identifier", once,
                  normalize_carbon_identifier(once))

\* the normalizer the reputation resolver applies itself
NormalizeReputationIdentifier ==
    /\ norm.data_type = "reputation_score"
    /\ \E once \in {normalize_reputation_identifier(norm.identifier)} :
          Applied("normalize_reputation_identifier", once,
                  normalize_reputation_identifier(once))

NextNormalize ==
    NormalizeIdentifier \/ NormalizeCarbonIdentifier \/ NormalizeReputationIdentifier

SpecNormalize == InitNormalize /\ [][NextNormalize]_vars

\* The carbon footprint resolver alone, over the reference table of the
\* source and the seeded ones
InitCarbon ==
    /\ now = 0
    /\ simulated_carbon_data \in CarbonStores
    /\ education_cache = EmptyCache
    /\ supply_chain_cache = EmptyCache
    /\ carbon_footprint_cache = EmptyCache
    /\ reputation_cache = EmptyCache
    /\ call = [made |-> FALSE]
    /\ result = EmptyDict
    /\ calls = 0
    /\ ticks = 0
    /\ norm = [applied |-> FALSE]
    /\ AgentIdle

FetchCarbon ==
    \E req \in CarbonScopeRequests :
        fetch_verifiable_data(req.data_type, req.identifier, req.query_details, NoUpstream)

NextCarbon == FetchCarbon \/ Advance

SpecCarbon == InitCarbon /\ [][NextCarbon]_vars

\* The four caches over their validity: requests of every static data type
\* that resolve (two of them to the same key as another), one that does not,
\* a clock that can stop one second short of the validity and exactly on it,
\* and a reference table whose record is replaced between two calls
CacheRequests ==
    { [data_type |-> "education_credential", identifier |-> "john_smith", query_details |-> ""],
      [data_type |-> "education_credential", identifier |-> "nobody", query_details |-> ""],
      [data_type |-> "supply_chain_status", identifier |-> "ecophone_x1", query_details |-> ""],
      [data_type |-> "carbon_footprint", identifier |-> "macbook_pro", query_details |-> ""],
      [data_type |-> "carbon_footprint", identifier |-> "macbook_pro", query_details |-> "scope=company"],
      [data_type |-> "carbon_footprint", identifier |-> "greencorp", query_details |-> ""],
      [data_type |-> "reputation_score", identifier |-> "alex_developer", query_details |-> ""],
      [data_type |-> "reputation_score", identifier |-> "alex_developer", query_details |-> "aspect=developer"],
      [data_type |-> "reputation_score", identifier |-> "Alex", query_details |-> ""] }

CacheAdvances == {1, CACHE_EXPIRY_SECONDS - 1}

\* the record of macbook_pro with another total
ReplacedRecord ==
    [SimulatedCarbonData.product["macbook_pro"] EXCEPT !.totalFootprint = "190.0"]

\* the module-level table simulated_carbon_data is assigned a new record
ReplaceRecord ==
    /\ calls < MaxRequests
    /\ simulated_carbon_data = SimulatedCarbonData
    /\ simulated_carbon_data' =
           [simulated_carbon_data EXCEPT !.product["macbook_pro"] = ReplacedRecord]
    /\ UNCHANGED <<now, caches, call, result, calls, ticks, norm, agent>>

FetchCached ==
    \E req \in CacheRequests :
        fetch_verifiable_data(req.data_type, req.identifier, req.query_details, NoUpstream)

AdvanceCache == \E d \in CacheAdvances : Tick(d)

NextCache == FetchCached \/ AdvanceCache \/ ReplaceRecord

SpecCache == Init /\ [][NextCache]_vars

----------------------------------------------------------------------------
(* main_agent.py and chat_protocol_integration.py: the agent and its three
   message handlers.  A handler runs from the receipt of its message to its
   return or to the await of a collaborator that answers later (the language
   model, the price API); the messages the agent sends to its own address wait
   in the inbox and are handled in any order. *)

\* number of inbound messages (chat messages and structured requests)
MaxMessages == 2

Senders == {"A", "B"}

\* str(ctx.session) of the chat messages
Sessions == {"S1", "S2"}

\* the chat messages: a question from every sender in every session, and a
\* message without text
ChatMessages ==
    [sender : Senders, session : Sessions,
     user_query : {"Verify the credentials of John Smith"}]
        \cup {[sender |-> "A", session |-> "S1", user_query |-> ""]}

\* what the language model is asked to produce
AgentRequests ==
    { [data_type |-> "education_credential", identifier |-> "john_smith"],
      [data_type |-> "education_credential", identifier |-> "nobody"],
      [data_type |-> "crypto_price", identifier |-> "bitcoin",
       query_details |-> "vs_currency=usd"] }

\* what get_structured_output_from_gemini returns: a dict that parses into a
\* VerifiableDataRequest, a dict that does not (no identifier), or None
GeminiOutcomes ==
    {[kind |-> "dict", data |-> req] : req \in AgentRequests}
        \cup {[kind |-> "dict", data |-> [data_type |-> "education_credential"]],
              [kind |-> "None"]}

\* the structured requests callers send directly: with a session_id that no
\* chat message uses, with one that chat messages use, and without one
DirectRequests ==
    { [session_id |-> "S3", data_type |-> "education_credential", identifier |-> "john_smith"],
      [session_id |-> "S3", data_type |-> "education_credential", identifier |-> "nobody"],
      [session_id |-> "S1", data_type |-> "education_credential", identifier |-> "john_smith"],
      [session_id |-> "", data_type |-> "education_credential", identifier |-> "john_smith"] }

\* the answers of the price API the agent is driven with
AgentUpstream ==
    {o \in UpstreamOutcomes :
        \/ o.kind = "RequestError"
        \/ o.kind = "json" /\ "bitcoin" \in DOMAIN o.api_data
                           /\ "usd" \in DOMAIN o.api_data["bitcoin"]}

\* d without the key k
Without(d, k) == [j \in DOMAIN d \ {k} |-> d[j]]

\* await ctx.send(destination, message), as the outbox records it: with the
\* handler that sent it, the session it was sent for and the number of the
\* inbound message it stems from
Sent(destination, handler, session_id, id, message) ==
    [to |-> destination, handler |-> handler, session_id |-> session_id, id |-> id]
        @@ message

ChatAcknowledgement == [type |-> "ChatAcknowledgement"]

\* the outbox after one more message was sent for the inbound message id
Send(sent, id, message) ==
    (id :> (IF id \in DOMAIN sent THEN Append(sent[id], message) ELSE <<message>>))
        @@ sent

\* ctx.storage.set that keeps the value a key already has
storage_set_once(store, key, value) ==
    IF key \in DOMAIN store THEN store ELSE (key :> value) @@ store

\* ctx.storage.set that forgets every other key
storage_set_single(store, key, value) == (key :> value)

\* ctx.storage.set(key, value)
storage_set(store, key, value) == (key :> value) @@ store

\* the state after startup, with GEMINI_API_KEY set or not
InitAgent ==
    /\ now = 0
    /\ simulated_carbon_data = SimulatedCarbonData
    /\ education_cache = EmptyCache
    /\ supply_chain_cache = EmptyCache
    /\ carbon_footprint_cache = EmptyCache
    /\ reputation_cache = EmptyCache
    /\ call = [made |-> FALSE]
    /\ result = EmptyDict
    /\ calls = 0
    /\ ticks = 0
    /\ norm = [applied |-> FALSE]
    /\ GEMINI_API_KEY \in BOOLEAN
    /\ storage = EmptyDict
    /\ inbox = EmptyDict
    /\ pending = EmptyDict
    /\ outbox = EmptyDict
    /\ fetched = EmptyDict
    /\ received = 0
    /\ formatted = [applied |-> FALSE]

\* handle_chat_message, from the receipt of the chat message to its return or
\* to the await of the language model
handle_chat_message(sender, session, user_query) ==
    /\ received < MaxMessages
    /\ received' = received + 1
    /\ storage' = storage_set(storage, session, sender)
    /\ LET id == received + 1
           ack == Sent(sender, "handle_chat_message", session, id, ChatAcknowledgement)
           reply(text) ==
               Sent(sender, "handle_chat_message", session, id,
                    create_chat_message(<< <<text>> >>, TRUE))
       IN  IF ~Truthy(user_query)
           THEN /\ outbox' = (id :>
                     <<ack, reply("I received an empty message. Please tell me what verifiable data you need.")>>)
                     @@ outbox
                /\ UNCHANGED pending
           ELSE IF ~GEMINI_API_KEY
           THEN /\ outbox' = (id :>
                     <<ack, reply("Sorry, I'm not configured correctly to use the LLM for understanding your request right now.")>>)
                     @@ outbox
                /\ UNCHANGED pending
           ELSE /\ outbox' = (id :> <<ack>>) @@ outbox
                /\ pending' =
                     (id :> [handler |-> "handle_chat_message",
                             awaits |-> "get_structured_output_from_gemini",
                             sender |-> sender, session |-> session,
                             user_query |-> user_query]) @@ pending
    /\ UNCHANGED <<now, simulated_carbon_data, caches, call, result, calls, ticks, norm,
                   GEMINI_API_KEY, inbox, fetched, formatted>>

\* the text of the first TextContent item of msg.content; without one
\* user_query stays None, which `not user_query` treats as the empty text
first_text(content) ==
    LET texts == {i \in 1..Len(content) : content[i].type = "text"}
    IN  IF texts = {} THEN ""
        ELSE content[CHOOSE i \in texts : \A j \in texts : i <= j].text

\* handle_chat_message from its first line, for a message with the content
\* items of msg.content.  The first line logs `msg.content[0].text if
\* msg.content else 'Empty'`: an item without a text attribute in the first
\* place (StartSessionContent, EndSessionContent) raises AttributeError there,
\* and the handler ends before it has bound or sent anything.
handle_chat_message_content(sender, session, content) ==
    IF Len(content) > 0 /\ "text" \notin DOMAIN content[1]
    THEN /\ received < MaxMessages
         /\ received' = received + 1
         /\ UNCHANGED <<now, simulated_carbon_data, caches, call, result, calls, ticks,
                        norm, GEMINI_API_KEY, storage, inbox, pending, outbox, fetched,
                        formatted>>
    ELSE handle_chat_message(sender, session, first_text(content))

\* handle_chat_message, from the return of the language model to its return
handle_chat_message_resumed(id, structured_data_from_gemini) ==
    /\ id \in DOMAIN pending
    /\ pending[id].handler = "handle_chat_message"
    /\ LET sender == pending[id].sender
           session == pending[id].session
           reply(text) ==
               Sent(sender, "handle_chat_message", session, id,
                    create_chat_message(<<text>>, TRUE))
       IN  IF structured_data_from_gemini.kind = "None"
           THEN /\ outbox' = Send(outbox, id,
                     reply(<<"Sorry, I couldn't understand or structure your request using the LLM. Please try rephrasing.">>))
                /\ UNCHANGED inbox
           ELSE IF {"data_type", "identifier"} \subseteq DOMAIN structured_data_from_gemini.data
           THEN /\ inbox' =
                     (id :> VerifiableDataRequest(session,
                               structured_data_from_gemini.data.data_type,
                               structured_data_from_gemini.data.identifier,
                               Get(structured_data_from_gemini.data, "query_details", "")))
                        @@ inbox
                /\ UNCHANGED outbox
           ELSE /\ outbox' = Send(outbox, id,
                     reply(<<"Sorry, I had trouble structuring your request after the LLM processed it. Details: ",
                             "ValidationError">>))
                /\ UNCHANGED inbox
    /\ pending' = Without(pending, id)
    /\ UNCHANGED <<now, simulated_carbon_data, caches, call, result, calls, ticks, norm,
                   GEMINI_API_KEY, storage, fetched, received, formatted>>

\* a caller sends a VerifiableDataRequest to the agent's address
receive_VerifiableDataRequest(req) ==
    /\ received < MaxMessages
    /\ received' = received + 1
    /\ inbox' = ((received + 1) :>
                    VerifiableDataRequest(req.session_id, req.data_type, req.identifier,
                                          Get(req, "query_details", ""))) @@ inbox
    /\ UNCHANGED <<now, simulated_carbon_data, caches, call, result, calls, ticks, norm,
                   GEMINI_API_KEY, storage, pending, outbox, fetched, formatted>>

\* a response model built from the request alone
response_model_of_request(request, data_dict) ==
    VerifiableDataResponse(request.session_id, request.data_type,
                           request.identifier, EmptyDict)

\* the response model handle_verifiable_data_request builds from the dict
\* fetch_verifiable_data returned
response_model(request, data_dict) ==
    IF "error_message" \in DOMAIN data_dict /\ Truthy(data_dict.error_message)
    THEN ErrorMessage(request.session_id, data_dict.error_message)
    ELSE VerifiableDataResponse(request.session_id, request.data_type,
                                request.identifier, data_dict)

\* the return of a fetch whose inserts give way to the entries other
\* resolutions made in between
fetch_returned_keeping_entries(id, request, r) ==
    /\ education_cache' = education_cache @@ r.caches[1]
    /\ supply_chain_cache' = supply_chain_cache @@ r.caches[2]
    /\ carbon_footprint_cache' = carbon_footprint_cache @@ r.caches[3]
    /\ reputation_cache' = reputation_cache @@ r.caches[4]
    /\ fetched' = (id :> [session_id |-> request.session_id, envelope |-> r.envelope,
                          call |-> r.call]) @@ fetched
    /\ inbox' = (id :> response_model(request, r.envelope)) @@ inbox

\* fetch_verifiable_data has returned r to handle_verifiable_data_request,
\* which sends the response model to the agent's own address and returns
fetch_returned(id, request, r) ==
    /\ education_cache' = r.caches[1]
    /\ supply_chain_cache' = r.caches[2]
    /\ carbon_footprint_cache' = r.caches[3]
    /\ reputation_cache' = r.caches[4]
    /\ fetched' = (id :> [session_id |-> request.session_id, envelope |-> r.envelope,
                          call |-> r.call]) @@ fetched
    /\ inbox' = (id :> response_model(request, r.envelope)) @@ inbox

\* handle_verifiable_data_request without the check of session_id
handle_verifiable_data_request_unchecked(id) ==
    /\ id \in DOMAIN inbox
    /\ inbox[id].type = "VerifiableDataRequest"
    /\ \E request \in {inbox[id]} :
          IF dispatch(request.data_type) = "fetch_crypto_price"
          THEN /\ inbox' = Without(inbox, id)
               /\ pending' =
                    (id :> [handler |-> "handle_verifiable_data_request",
                            awaits |-> "client.get", request |-> request]) @@ pending
               /\ UNCHANGED <<caches, fetched>>
          ELSE /\ \E r \in {route(request.data_type, request.identifier,
                                  request.query_details, NoUpstream,
                                  caches, stores, now)} :
                      fetch_returned(id, request, r)
               /\ UNCHANGED pending
    /\ UNCHANGED <<now, simulated_carbon_data, call, result, calls, ticks, norm,
                   GEMINI_API_KEY, storage, outbox, received, formatted>>

\* handle_verifiable_data_request, from the receipt of the request to its
\* return or to the await of the price API
handle_verifiable_data_request(id) ==
    /\ id \in DOMAIN inbox
    /\ inbox[id].type = "VerifiableDataRequest"
    /\ \E request \in {inbox[id]} :
          IF ~Truthy(request.session_id)
          THEN /\ inbox' = Without(inbox, id)
               /\ UNCHANGED <<caches, pending, fetched>>
          ELSE IF dispatch(request.data_type) = "fetch_crypto_price"
          THEN /\ inbox' = Without(inbox, id)
               /\ pending' =
                    (id :> [handler |-> "handle_verifiable_data_request",
                            awaits |-> "client.get", request |-> request]) @@ pending
               /\ UNCHANGED <<caches, fetched>>
          ELSE /\ \E r \in {route(request.data_type, request.identifier,
                                  request.query_details, NoUpstream,
                                  caches, stores, now)} :
                      fetch_returned(id, request, r)
               /\ UNCHANGED pending
    /\ UNCHANGED <<now, simulated_carbon_data, call, result, calls, ticks, norm,
                   GEMINI_API_KEY, storage, outbox, received, formatted>>

\* handle_verifiable_data_request calling the price API again after a call
\* that failed
handle_verifiable_data_request_retrying(id, upstream) ==
    /\ id \in DOMAIN pending
    /\ pending[id].handler = "handle_verifiable_data_request"
    /\ \E request \in {pending[id].request} :
       \E r \in {route(request.data_type, request.identifier, request.query_details,
                       upstream, caches, stores, now)} :
          fetch_returned(id, request, r)
    /\ pending' = IF upstream.kind = "json" THEN Without(pending, id) ELSE pending
    /\ UNCHANGED <<now, simulated_carbon_data, call, result, calls, ticks, norm,
                   GEMINI_API_KEY, storage, outbox, received, formatted>>

\* handle_verifiable_data_request, from the answer of the price API to its
\* return
handle_verifiable_data_request_resumed(id, upstream) ==
    /\ id \in DOMAIN pending
    /\ pending[id].handler = "handle_verifiable_data_request"
    /\ \E request \in {pending[id].request} :
       \E r \in {route(request.data_type, request.identifier, request.query_details,
                       upstream, caches, stores, now)} :
          fetch_returned(id, request, r)
    /\ pending' = Without(pending, id)
    /\ UNCHANGED <<now, simulated_carbon_data, call, result, calls, ticks, norm,
                   GEMINI_API_KEY, storage, outbox, received, formatted>>

\* the text handle_internal_response makes of a response model
formatted_text_response(response) ==
    IF response.type = "VerifiableDataResponse"
    THEN format_response_for_chat(response)
    ELSE format_response_for_chat(
            ErrorResponse(response.session_id, "error_report",
                          "unknown_request_due_to_error", response.error))

\* handle_internal_response sending the final report twice
handle_internal_response_resending(id) ==
    /\ id \in DOMAIN inbox
    /\ inbox[id].type \in {"VerifiableDataResponse", "ErrorMessage"}
    /\ \E response \in {inbox[id]} :
          IF ~Truthy(response.session_id)
          THEN UNCHANGED outbox
          ELSE IF response.session_id \notin DOMAIN storage
          THEN UNCHANGED outbox
          ELSE \E report \in
                    {Sent(storage[response.session_id], "handle_internal_response",
                          response.session_id, id,
                          create_chat_message(formatted_text_response(response), TRUE))} :
                  outbox' = Send(Send(outbox, id, report), id, report)
    /\ inbox' = Without(inbox, id)
    /\ UNCHANGED <<now, simulated_carbon_data, caches, call, result, calls, ticks, norm,
                   GEMINI_API_KEY, storage, pending, fetched, received, formatted>>

\* handle_internal_response without the check of the binding: the report of
\* an unbound session is sent to whatever ctx.storage.get returned
handle_internal_response_unchecked(id) ==
    /\ id \in DOMAIN inbox
    /\ inbox[id].type \in {"VerifiableDataResponse", "ErrorMessage"}
    /\ \E response \in {inbox[id]} :
          IF ~Truthy(response.session_id)
          THEN UNCHANGED outbox
          ELSE outbox' = Send(outbox, id,
                    Sent(Get(storage, response.session_id, None),
                         "handle_internal_response", response.session_id, id,
                         create_chat_message(formatted_text_response(response), TRUE)))
    /\ inbox' = Without(inbox, id)
    /\ UNCHANGED <<now, simulated_carbon_data, caches, call, result, calls, ticks, norm,
                   GEMINI_API_KEY, storage, pending, fetched, received, formatted>>

\* handle_internal_response, from the receipt of a VerifiableDataResponse or
\* an ErrorMessage to its return
handle_internal_response(id) ==
    /\ id \in DOMAIN inbox
    /\ inbox[id].type \in {"VerifiableDataResponse", "ErrorMessage"}
    /\ \E response \in {inbox[id]} :
          IF ~Truthy(response.session_id)
          THEN UNCHANGED outbox
          ELSE IF response.session_id \notin DOMAIN storage
          THEN UNCHANGED outbox
          ELSE outbox' = Send(outbox, id,
                    Sent(storage[response.session_id], "handle_internal_response",
                         response.session_id, id,
                         create_chat_message(formatted_text_response(response), TRUE)))
    /\ inbox' = Without(inbox, id)
    /\ UNCHANGED <<now, simulated_carbon_data, caches, call, result, calls, ticks, norm,
                   GEMINI_API_KEY, storage, pending, fetched, received, formatted>>

ChatMessageArrives ==
    \E msg \in ChatMessages :
        handle_chat_message(msg.sender, msg.session, msg.user_query)

GeminiReturns ==
    \E id \in DOMAIN pending : \E outcome \in GeminiOutcomes :
        handle_chat_message_resumed(id, outcome)

RequestArrives ==
    \E req \in DirectRequests : receive_VerifiableDataRequest(req)

RequestHandled == \E id \in DOMAIN inbox : handle_verifiable_data_request(id)

UpstreamReturns ==
    \E id \in DOMAIN pending : \E upstream \in AgentUpstream :
        handle_verifiable_data_request_resumed(id, upstream)

ResponseHandled == \E id \in DOMAIN inbox : handle_internal_response(id)

NextAgent ==
    \/ ChatMessageArrives
    \/ GeminiReturns
    \/ RequestArrives
    \/ RequestHandled
    \/ UpstreamReturns
    \/ ResponseHandled

SpecAgent == InitAgent /\ [][NextAgent]_vars

\* The formatter alone, next to the agent answering the chat messages of one
\* sender in one session.  The formatter is given the envelopes the five
\* resolvers return for a known and for an unknown identifier, and each of
\* them with an error_message put in or blanked.
FormatEnvelopes ==
    { fetch_crypto_price("bitcoin", "vs_currency=usd", isoformat_Z(0), o).envelope :
          o \in AgentUpstream }
    \cup { fetch_education_credential(identifier, "", isoformat_Z(0), EmptyCache,
                                      simulated_credentials, 0).envelope :
              identifier \in {"john_smith", "nobody"} }
    \cup { fetch_supply_chain_status("ecophone_x1", "", isoformat_Z(0), EmptyCache,
                                     simulated_supply_chains, 0).envelope,
           fetch_carbon_footprint("greencorp", "", isoformat_Z(0), EmptyCache,
                                  SimulatedCarbonData, 0).envelope,
           fetch_reputation_score("alex_developer", "", isoformat_Z(0), EmptyCache,
                                  simulated_reputation_data, 0).envelope }

FormatInputs ==
    FormatEnvelopes
    \cup {[error_message |-> "The data source is unavailable."] @@ e : e \in FormatEnvelopes}
    \cup {[error_message |-> ""] @@ e : e \in FormatEnvelopes}
    \cup {[data_payload |-> EmptyDict] @@ e : e \in FormatEnvelopes}
    \cup {Without(e, "data_payload") : e \in FormatEnvelopes}
    \cup {[request_data_type |-> "weather_report"] @@ e : e \in FormatEnvelopes}
    \cup {ErrorResponse("S1", "error_report", "unknown_request_due_to_error",
                        "The data source is unavailable.")}

\* format_response_for_chat(response_data)
FormatResponse ==
    /\ ~formatted.applied
    /\ \E response_data \in FormatInputs :
          formatted' = [applied |-> TRUE, response_data |-> response_data,
                        text |-> format_response_for_chat(response_data)]
    /\ UNCHANGED <<now, simulated_carbon_data, caches, call, result, calls, ticks, norm,
                   GEMINI_API_KEY, storage, inbox, pending, outbox, fetched, received>>

ChatMessageFromA ==
    \E msg \in {m \in ChatMessages : m.sender = "A" /\ m.session = "S1"} :
        handle_chat_message(msg.sender, msg.session, msg.user_query)

NextReport ==
    \/ ChatMessageFromA
    \/ GeminiReturns
    \/ RequestHandled
    \/ UpstreamReturns
    \/ ResponseHandled
    \/ FormatResponse

SpecReport == InitAgent /\ [][NextReport]_vars

\* The agent handling the chat messages of two senders in one session while
\* the clock advances: their resolutions of the same keys and their binds of
\* the same session interleave at the awaits of the language model and of the
\* price API.
SharedChats == {m \in ChatMessages : m.session = "S1" /\ Truthy(m.user_query)}

SharedRequests ==
    { [data_type |-> "carbon_footprint", identifier |-> "macbook_pro"],
      [data_type |-> "crypto_price", identifier |-> "bitcoin",
       query_details |-> "vs_currency=usd"] }

\* the entries of the caches expire
SharedExpiry == Tick(CACHE_EXPIRY_SECONDS)

SharedChatArrives ==
    \E msg \in SharedChats :
        handle_chat_message(msg.sender, msg.session, msg.user_query)

SharedGeminiReturns ==
    \E id \in DOMAIN pending : \E req \in SharedRequests :
        handle_chat_message_resumed(id, [kind |-> "dict", data |-> req])

NextShared ==
    \/ SharedChatArrives
    \/ SharedGeminiReturns
    \/ RequestHandled
    \/ UpstreamReturns
    \/ ResponseHandled
    \/ SharedExpiry

SpecShared == InitAgent /\ [][NextShared]_vars

\* The agent receiving structured requests and response models from other
\* agents, some of them without a session_id, while a chat session is bound.
UntaggedRequests ==
    { [session_id |-> "", data_type |-> "education_credential", identifier |-> "john_smith"],
      [session_id |-> "", data_type |-> "crypto_price", identifier |-> "bitcoin"],
      [session_id |-> "S3", data_type |-> "education_credential", identifier |-> "john_smith"] }

UntaggedResponses ==
    { VerifiableDataResponse("", "education_credential", "john_smith",
          fetch_education_credential("john_smith", "", isoformat_Z(0), EmptyCache,
                                     simulated_credentials, 0).envelope),
      ErrorMessage("", "The data source is unavailable.") }

\* another agent sends a VerifiableDataResponse or an ErrorMessage to the
\* agent's address
receive_response_model(response) ==
    /\ received < MaxMessages
    /\ received' = received + 1
    /\ inbox' = ((received + 1) :> response) @@ inbox
    /\ UNCHANGED <<now, simulated_carbon_data, caches, call, result, calls, ticks, norm,
                   GEMINI_API_KEY, storage, pending, outbox, fetched, formatted>>

UntaggedRequestArrives ==
    \E req \in UntaggedRequests : receive_VerifiableDataRequest(req)

UntaggedResponseArrives ==
    \E response \in UntaggedResponses : receive_response_model(response)

NextUntagged ==
    \/ ChatMessageFromA
    \/ UntaggedRequestArrives
    \/ UntaggedResponseArrives
    \/ RequestHandled
    \/ ResponseHandled

SpecUntagged == InitAgent /\ [][NextUntagged]_vars

\* The agent answering one sender's chat messages and the structured requests
\* of other agents, with what makes it go on: every message in its inbox is
\* dispatched to its handler, and the call of the price API returns (with a
\* price or, after its timeout at the latest, with an error).
NextAnswer ==
    \/ ChatMessageFromA
    \/ GeminiReturns
    \/ RequestArrives
    \/ RequestHandled
    \/ UpstreamReturns
    \/ ResponseHandled

SpecAnswer ==
    /\ InitAgent
    /\ [][NextAnswer]_vars
    /\ WF_vars(RequestHandled)
    /\ WF_vars(UpstreamReturns)
    /\ WF_vars(ResponseHandled)

\* The chat handler alone, given chat messages by their content items: a text,
\* a text after the start of a session, a text before its end, an empty text,
\* the start of a session alone, and no item at all.
ChatContents ==
    { << [type |-> "text", text |-> "Verify the credentials of John Smith"] >>,
      << [type |-> "start-session"],
         [type |-> "text", text |-> "Verify the credentials of John Smith"] >>,
      << [type |-> "text", text |-> "Verify the credentials of John Smith"],
         [type |-> "end-session"] >>,
      << [type |-> "text", text |-> ""] >>,
      << [type |-> "start-session"] >>,
      << >> }

ChatContentArrives ==
    \E sender \in Senders : \E content \in ChatContents :
        handle_chat_message_content(sender, "S1", content)

NextChat == ChatContentArrives \/ GeminiReturns

SpecChat == InitAgent /\ [][NextChat]_vars

\* The agent answering price requests, the price API giving every answer it
\* can give.
PriceRequests ==
    { [session_id |-> "S3", data_type |-> "crypto_price", identifier |-> "bitcoin",
       query_details |-> "vs_currency=usd"],
      [session_id |-> "S3", data_type |-> "crypto_price", identifier |-> "bitcoin",
       query_details |-> "vs_currency=eur"],
      [session_id |-> "S3", data_type |-> "crypto_price", identifier |-> "ethereum"] }

PriceRequestArrives ==
    \E req \in PriceRequests : receive_VerifiableDataRequest(req)

PriceReturns ==
    \E id \in DOMAIN pending : \E upstream \in UpstreamOutcomes :
        handle_verifiable_data_request_resumed(id, upstream)

NextPrice ==
    \/ PriceRequestArrives
    \/ RequestHandled
    \/ PriceReturns
    \/ ResponseHandled

SpecPrice == InitAgent /\ [][NextPrice]_vars

----------------------------------------------------------------------------
(* Vocabulary of the properties *)

\* the data types the router dispatches on
SupportedTypes ==
    {"crypto_price", "education_credential", "supply_chain_status",
     "carbon_footprint", "reputation_score"}

\* the data types answered from the static reference tables
StaticTypes == SupportedTypes \ {"crypto_price"}

\* the last step was a call of the router
FetchStep == calls' = calls + 1

\* the last call asked for a static-dataset type
StaticCall == call.made /\ lower(call.data_type) \in StaticTypes

\* the identifier of the last call is a key of its domain's reference table
IdentifierIsKey ==
    LET d == lower(call.data_type)
    IN  \/ d = "education_credential" /\ call.identifier \in DOMAIN simulated_credentials
        \/ d = "supply_chain_status" /\ call.identifier \in DOMAIN simulated_supply_chains
        \/ d = "carbon_footprint"
             /\ \E scope \in DOMAIN simulated_carbon_data :
                    call.identifier \in DOMAIN simulated_carbon_data[scope]
        \/ d = "reputation_score" /\ call.identifier \in DOMAIN simulated_reputation_data

\* the normalized form of the identifier of the last call is in no view of
\* its domain's reference table
NormalizedIdentifierAbsent ==
    LET d == lower(call.data_type)
    IN  \/ /\ d = "education_credential"
           /\ normalize_identifier(call.identifier, d) \notin DOMAIN simulated_credentials
        \/ /\ d = "supply_chain_status"
           /\ normalize_identifier(call.identifier, d) \notin DOMAIN simulated_supply_chains
        \/ /\ d = "carbon_footprint"
           /\ \A scope \in DOMAIN simulated_carbon_data :
                normalize_carbon_identifier(call.identifier)
                    \notin DOMAIN simulated_carbon_data[scope]
        \/ /\ d = "reputation_score"
           /\ normalize_reputation_identifier(call.identifier)
                \notin DOMAIN simulated_reputation_data

\* the envelope carries no error: no error_message key, or a falsy one
NoError(envelope) ==
    "error_message" \in DOMAIN envelope => envelope.error_message = ""

HasError(envelope) ==
    "error_message" \in DOMAIN envelope /\ envelope.error_message # ""

SomeCacheFilled == \E i \in 1..4 : DOMAIN caches[i] # {}

----------------------------------------------------------------------------
(* C1: for each of the four static-dataset data types and every identifier
   that is a key of that domain's reference table, the router returns an
   envelope with no error_message, a non-empty data_payload and a non-empty
   verification_summary, whatever the caches hold and whatever the clock
   shows. *)
C1_KeyResolves ==
    (StaticCall /\ IdentifierIsKey) =>
        /\ NoError(result)
        /\ DOMAIN result.data_payload # {}
        /\ result.verification_summary # ""

\* a key is resolved later than time 0 by a call that finds the cache filled
C1_Witness ==
    /\ StaticCall /\ IdentifierIsKey
    /\ now > 0
    /\ SomeCacheFilled
    /\ call.locals.cache_hit
    /\ NoError(result)

(* C2: for every static-dataset data type and every identifier whose
   normalized form is in no view of that domain's reference table, the
   router returns an envelope with a non-empty error_message and an empty
   data_payload, whatever query_details says and whatever the caches
   hold. *)
C2_AbsentIsNotFound ==
    (StaticCall /\ NormalizedIdentifierAbsent) =>
        /\ HasError(result)
        /\ result.data_payload = EmptyDict

\* an absent identifier is asked for with a hint while a cache is filled
C2_Witness ==
    /\ StaticCall /\ NormalizedIdentifierAbsent
    /\ call.query_details # ""
    /\ SomeCacheFilled
    /\ HasError(result)

(* C3: for every data_type that is not one of the five supported types, the
   router returns (it does not raise) an envelope with an empty
   data_payload and an error_message naming all five supported types, whose
   request_data_type and request_identifier echo the inputs; the call
   leaves every cache as it was and makes no upstream call. *)
C3_UnsupportedType ==
    [][(FetchStep /\ lower(call'.data_type) \notin SupportedTypes) =>
        /\ result'.data_payload = EmptyDict
        /\ HasError(result')
        /\ \A type \in SupportedTypes :
               Contains("'" \o type \o "'", result'.error_message)
        /\ result'.request_data_type = call'.data_type
        /\ result'.request_identifier = call'.identifier
        /\ UNCHANGED caches
        /\ "upstream_calls" \notin DOMAIN call'.locals]_vars

\* an unsupported type was asked for while a cache was filled
C3_Witness ==
    /\ call.made
    /\ lower(call.data_type) \notin SupportedTypes
    /\ call.data_type = "stock_price"
    /\ SomeCacheFilled
    /\ HasError(result)

(* C4, as claimed: for any two data_type strings that are equal after
   lowercasing, the router calls the same resolver and returns the same
   envelope, with request_data_type the lowercase type name: a call returns
   what the call with the lowercased data_type returns from the same
   state. *)
C4_AsClaimed ==
    [][FetchStep =>
        \A same \in {route(lower(call'.data_type), call'.identifier,
                            call'.query_details, call'.upstream, caches, stores, now)} :
            /\ call'.resolver = same.call.resolver
            /\ result' = same.envelope
            /\ result'.request_data_type = same.call.data_type]_vars

(* C4, amended: the same, for the data_type strings whose lowercase form is
   one of the five supported types. *)
C4_SupportedTypeAnyCase ==
    [][FetchStep =>
        \A same \in {route(lower(call'.data_type), call'.identifier,
                            call'.query_details, call'.upstream, caches, stores, now)} :
            same.call.data_type \in SupportedTypes =>
                /\ call'.resolver = same.call.resolver
                /\ call'.resolver # "none"
                /\ result' = same.envelope
                /\ caches' = same.caches
                /\ result'.request_data_type = same.call.data_type]_vars

\* a supported type was asked for in a spelling that is not lowercase
C4_Witness ==
    /\ call.made
    /\ call.data_type # lower(call.data_type)
    /\ lower(call.data_type) \in SupportedTypes
    /\ NoError(result)

----------------------------------------------------------------------------
(* Vocabulary of the carbon footprint properties *)

CarbonCall == call.made /\ call.resolver = "fetch_carbon_footprint"

\* the normalized identifier of the last call: lowercase
CarbonIdentifier == normalize_carbon_identifier(call.identifier)

Scopes == {"product", "company", "activity"}

\* query_details names the scope
NamesScope(scope, query_details) == Contains("scope=" \o scope, query_details)

\* query_details names this scope and no other
NamesOnlyScope(scope, query_details) ==
    /\ NamesScope(scope, query_details)
    /\ \A other \in Scopes \ {scope} : ~NamesScope(other, query_details)

\* the scope's record set holds the identifier
InScope(scope, identifier) == identifier \in DOMAIN simulated_carbon_data[scope]

\* the first of product, company, activity that holds the identifier, and
\* product when none does
FirstScopeHolding(identifier) ==
    IF InScope("product", identifier) THEN "product"
    ELSE IF InScope("company", identifier) THEN "company"
    ELSE IF InScope("activity", identifier) THEN "activity"
    ELSE "product"

\* the successful payload built from the record of that scope
PayloadOfScope(scope, identifier, envelope) ==
    carbon_payload(scope, simulated_carbon_data[scope][identifier],
        [method |-> "Multi-Attestation Protocol",
         hash |-> sha256(simulated_carbon_data[scope][identifier]),
         timestamp |-> envelope.timestamp])

(* C5: whenever query_details names a scope and the normalized identifier
   is a key of that scope's record set, the resolved scope is the requested
   one and the payload is built from its record, also when the scan in the
   order product, company, activity would have picked an earlier scope that
   holds the identifier too. *)
C5_RequestedScopeWins ==
    CarbonCall =>
        \A scope \in Scopes :
            (NamesOnlyScope(scope, call.query_details) /\ InScope(scope, CarbonIdentifier)) =>
                /\ call.locals.data_scope = scope
                /\ NoError(result)
                /\ result.data_payload = PayloadOfScope(scope, CarbonIdentifier, result)

\* the requested scope was taken although the scan finds an earlier one
C5_Witness ==
    /\ CarbonCall
    /\ \E scope \in Scopes :
          /\ NamesOnlyScope(scope, call.query_details)
          /\ InScope(scope, CarbonIdentifier)
          /\ FirstScopeHolding(CarbonIdentifier) # scope
          /\ call.locals.data_scope = scope
    /\ NoError(result)

(* C6: when query_details names no scope, or only scopes whose record set
   does not hold the normalized identifier, the resolved scope is the first
   of product, company, activity that holds the identifier, and product
   when none does, and then the lookup misses and a not-found error
   envelope is returned.  "MacBook_Pro" without a hint and "macbook_pro"
   with scope=company both resolve to the product record (total 185.3,
   manufacturing 142.8). *)
C6_FallbackScope ==
    CarbonCall =>
        /\ (\A scope \in Scopes :
                NamesScope(scope, call.query_details) => ~InScope(scope, CarbonIdentifier))
            => /\ call.locals.data_scope = FirstScopeHolding(CarbonIdentifier)
               /\ IF \E scope \in Scopes : InScope(scope, CarbonIdentifier)
                  THEN /\ NoError(result)
                       /\ result.data_payload =
                            PayloadOfScope(FirstScopeHolding(CarbonIdentifier),
                                           CarbonIdentifier, result)
                  ELSE /\ call.locals.data_scope = "product"
                       /\ HasError(result)
                       /\ result.data_payload = EmptyDict
        /\ (\/ call.identifier = "MacBook_Pro" /\ call.query_details = ""
            \/ call.identifier = "macbook_pro" /\ call.query_details = "scope=company")
            => /\ call.locals.data_scope = "product"
               /\ NoError(result)
               /\ result.data_payload.carbonFootprint.total = "185.3"
               /\ result.data_payload.carbonFootprint.breakdown.manufacturing = "142.8"

\* a hint for a scope that does not hold the identifier fell back to the scan,
\* which found the identifier in a scope after the first
C6_Witness ==
    /\ CarbonCall
    /\ \E scope \in Scopes :
          /\ NamesOnlyScope(scope, call.query_details)
          /\ ~InScope(scope, CarbonIdentifier)
    /\ call.locals.data_scope = "company"
    /\ InScope("company", CarbonIdentifier)
    /\ NoError(result)

(* Vocabulary of the reputation properties *)

ReputationCall == call.made /\ call.resolver = "fetch_reputation_score"

\* the normalized identifier of the last call
ReputationIdentifier == normalize_reputation_identifier(call.identifier)

KnownEntity == ReputationIdentifier \in DOMAIN simulated_reputation_data

Aspects == {"developer", "contributor", "service"}

NamesAspect(aspect, query_details) == Contains("aspect=" \o aspect, query_details)

\* query_details names this aspect and no other
NamesOnlyAspect(aspect, query_details) ==
    /\ NamesAspect(aspect, query_details)
    /\ \A other \in Aspects \ {aspect} : ~NamesAspect(other, query_details)

\* the NotFound envelope of an unknown entity: nothing of it comes from
\* query_details
NotFoundEnvelope(identifier, timestamp) ==
    [request_data_type |-> "reputation_score",
     request_identifier |-> identifier,
     source_description |-> "Decentralized Reputation Network",
     data_payload |-> EmptyDict,
     verification_summary |-> "No reputation data found for this identifier.",
     timestamp |-> timestamp,
     error_message |-> "No reputation information found for identifier '"
                          \o identifier \o "'."]

(* C7: a reputation_score request whose normalized identifier is not an
   entity of the reputation dataset returns the NotFound error envelope
   immediately: the envelope is a function of the identifier and the time
   alone, not of query_details, no aspect is resolved and no cache key is
   computed, and the reputation cache is left as it was. *)
C7_UnknownEntity ==
    [][(FetchStep /\ call'.resolver = "fetch_reputation_score"
            /\ normalize_reputation_identifier(call'.identifier)
                   \notin DOMAIN simulated_reputation_data)
        => /\ result' = NotFoundEnvelope(call'.identifier, isoformat_Z(now))
           /\ HasError(result')
           /\ DOMAIN call'.locals = {"normalized_identifier"}
           /\ reputation_cache' = reputation_cache
           /\ UNCHANGED caches]_vars

\* an unknown entity was asked with an aspect hint while the cache held the
\* records of a known one
C7_Witness ==
    /\ ReputationCall
    /\ ~KnownEntity
    /\ call.query_details = "aspect=developer"
    /\ reputation_cache # EmptyCache
    /\ result = NotFoundEnvelope(call.identifier, result.timestamp)

(* C8: for a reputation_score request on a known entity, if query_details
   names an aspect (developer, contributor or service) and the entity has a
   record for that aspect, the payload is built from that aspect's record
   and the cache key is the one of that (entity, aspect) pair, under which
   the record is cached afterwards. *)
C8_RequestedAspect ==
    (ReputationCall /\ KnownEntity) =>
        \A aspect \in Aspects :
            (/\ NamesOnlyAspect(aspect, call.query_details)
             /\ aspect \in DOMAIN simulated_reputation_data[ReputationIdentifier])
            => /\ call.locals.reputation_aspect = aspect
               /\ NoError(result)
               /\ result.data_payload =
                    reputation_payload(
                        simulated_reputation_data[ReputationIdentifier][aspect],
                        result.timestamp)
               /\ call.locals.cache_key =
                    "reputation_" \o ReputationIdentifier \o "_" \o aspect
               /\ call.locals.cache_key \in DOMAIN reputation_cache
               /\ reputation_cache[call.locals.cache_key].data =
                    simulated_reputation_data[ReputationIdentifier][aspect]

\* the developer record of alex_developer was asked for and returned
C8_Witness ==
    /\ ReputationCall
    /\ KnownEntity
    /\ NamesOnlyAspect("developer", call.query_details)
    /\ call.locals.reputation_aspect = "developer"
    /\ call.locals.cache_key = "reputation_alex_developer_developer"
    /\ result.data_payload.reputationScores.overall =
          simulated_reputation_data.alex_developer.developer.developerScore

(* C9: a reputation_score request with identifier "Alex Rodriguez", "Alex"
   or "Rodriguez" and no query_details normalizes to alex_developer,
   resolves to the general aspect and returns a successful envelope whose
   overall score is 92. *)
C9_AliasSpellings ==
    (/\ ReputationCall
     /\ call.identifier \in {"Alex Rodriguez", "Alex", "Rodriguez"}
     /\ call.query_details = "")
    => /\ call.locals.normalized_identifier = "alex_developer"
       /\ "reputation_aspect" \in DOMAIN call.locals
       /\ call.locals.reputation_aspect = "general"
       /\ NoError(result)
       /\ result.data_payload.reputationScores.overall = 92

(* C10: identifier normalization is idempotent in every domain: for every
   identifier x and every data type d, normalizing the normalized
   identifier returns it unchanged; no target of the reputation alias table
   is itself an alias key, so an alias spelling is normalized in one step;
   the empty identifier is returned unchanged. *)
C10_Idempotent ==
    norm.applied =>
        /\ norm.twice = norm.once
        /\ norm.identifier = "" => norm.once = ""
        /\ (/\ norm.data_type = "reputation_score"
            /\ lower(norm.identifier) \in DOMAIN name_mappings)
            => /\ norm.once = name_mappings[lower(norm.identifier)]
               /\ norm.once \notin DOMAIN name_mappings

\* an alias spelling was normalized to its target, and the target to itself
C10_Witness ==
    /\ norm.applied
    /\ norm.function = "normalize_reputation_identifier"
    /\ norm.identifier = "Alex"
    /\ norm.once = "alex_developer"
    /\ norm.twice = "alex_developer"

(* Vocabulary of the single-view properties *)

SingleViewCall ==
    /\ call.made
    /\ call.resolver \in {"fetch_education_credential", "fetch_supply_chain_status"}

\* the table a single-view resolver looks the identifier up in
SingleViewTable ==
    IF call.resolver = "fetch_education_credential"
    THEN simulated_credentials ELSE simulated_supply_chains

SingleViewCache ==
    IF call.resolver = "fetch_education_credential"
    THEN education_cache ELSE supply_chain_cache

SingleViewPrefix ==
    IF call.resolver = "fetch_education_credential"
    THEN "education_" ELSE "supply_chain_"

\* the normalized form of the identifier of the last call: lowercase, and for
\* the names of persons with underscores for the spaces
SingleViewNormalized ==
    IF call.resolver = "fetch_education_credential"
    THEN replace_spaces(lower(call.identifier))
    ELSE lower(call.identifier)

(* C11: for the single-view domains (education_credential,
   supply_chain_status) the resolver reached through the router looks the
   normalized identifier up and caches under it: a raw identifier whose
   normalized form is a key of the table ("Alex Chen" for alex_chen)
   resolves to that record, under the cache key of the normalized
   identifier. *)
C11_NormalizedLookup ==
    (SingleViewCall /\ SingleViewNormalized \in DOMAIN SingleViewTable) =>
        /\ NoError(result)
        /\ result.data_payload # EmptyDict
        /\ call.locals.cache_key = SingleViewPrefix \o SingleViewNormalized
        /\ call.locals.cache_key \in DOMAIN SingleViewCache

----------------------------------------------------------------------------

----------------------------------------------------------------------------
(* Vocabulary of the cache properties *)

\* the call c went through a cache: its resolver computed a cache key
CachedCall(c) == c.made /\ "cache_key" \in DOMAIN c.locals

\* the cache of the resolver of the call c, among the four caches cs
CacheIndex(c) ==
    CASE c.resolver = "fetch_education_credential" -> 1
      [] c.resolver = "fetch_supply_chain_status" -> 2
      [] c.resolver = "fetch_carbon_footprint" -> 3
      [] c.resolver = "fetch_reputation_score" -> 4

CacheOf(c, cs) == cs[CacheIndex(c)]

\* the key of the call c has an entry in cache, of the given age at time t
EntryYoungerThan(c, cache, t, age) ==
    /\ c.locals.cache_key \in DOMAIN cache
    /\ t - cache[c.locals.cache_key].cached_at < age

\* the record the reference tables ds hold for what the call c resolved to
InStore(c, ds) ==
    CASE c.resolver = "fetch_education_credential" -> c.identifier \in DOMAIN ds[1]
      [] c.resolver = "fetch_supply_chain_status" -> c.identifier \in DOMAIN ds[2]
      [] c.resolver = "fetch_carbon_footprint" ->
            c.locals.normalized_identifier \in DOMAIN ds[3][c.locals.data_scope]
      [] c.resolver = "fetch_reputation_score" ->
            /\ c.locals.normalized_identifier \in DOMAIN ds[4]
            /\ c.locals.reputation_aspect \in DOMAIN ds[4][c.locals.normalized_identifier]

StoreRecord(c, ds) ==
    CASE c.resolver = "fetch_education_credential" -> ds[1][c.identifier]
      [] c.resolver = "fetch_supply_chain_status" -> ds[2][c.identifier]
      [] c.resolver = "fetch_carbon_footprint" ->
            ds[3][c.locals.data_scope][c.locals.normalized_identifier]
      [] c.resolver = "fetch_reputation_score" ->
            ds[4][c.locals.normalized_identifier][c.locals.reputation_aspect]

\* the verification proof an envelope of the call c carries in its payload
ProofOf(c, envelope) ==
    CASE c.resolver = "fetch_education_credential" ->
            [hash |-> envelope.data_payload.verificationProof]
      [] c.resolver = "fetch_supply_chain_status" ->
            envelope.data_payload.verificationProof
      [] c.resolver = "fetch_carbon_footprint" ->
            envelope.data_payload.verification.proof
      [] c.resolver = "fetch_reputation_score" ->
            envelope.data_payload.verification

\* the envelope reports a content hash, and it is the digest of record
ReportsHashOf(c, envelope, record) ==
    /\ "hash" \in DOMAIN ProofOf(c, envelope)
    /\ ProofOf(c, envelope).hash = sha256(record)

\* what of the record shows in the payload of an envelope of the call c
Shown(c, envelope) ==
    CASE c.resolver = "fetch_education_credential" ->
            <<envelope.data_payload.profile.name, envelope.data_payload.credentials>>
      [] c.resolver = "fetch_supply_chain_status" ->
            <<envelope.data_payload.product.name, envelope.data_payload.supplyChain>>
      [] c.resolver = "fetch_carbon_footprint" ->
            IF c.locals.data_scope = "company"
            THEN <<envelope.data_payload.companyInfo.name,
                   envelope.data_payload.emissions.total>>
            ELSE IF c.locals.data_scope = "product"
            THEN <<envelope.data_payload.productInfo.name,
                   envelope.data_payload.carbonFootprint.total>>
            ELSE <<envelope.data_payload.activityInfo.type,
                   envelope.data_payload.carbonFootprint.total>>
      [] c.resolver = "fetch_reputation_score" ->
            <<envelope.data_payload.entityInfo.name,
              envelope.data_payload.verification.attesters>>

ShownOfRecord(c, record) ==
    CASE c.resolver = "fetch_education_credential" -> <<record.name, record.credentials>>
      [] c.resolver = "fetch_supply_chain_status" -> <<record.name, record.chain>>
      [] c.resolver = "fetch_carbon_footprint" ->
            IF c.locals.data_scope = "company"
            THEN <<record.name, record.totalEmissions>>
            ELSE IF c.locals.data_scope = "product"
            THEN <<record.name, record.totalFootprint>>
            ELSE <<record.type, record.footprint>>
      [] c.resolver = "fetch_reputation_score" -> <<record.name, record.attesters>>

\* a call finds an entry of its key younger than the validity: it reads no
\* table, leaves the cache as it was and returns the record of the entry
HitServesEntry ==
    (/\ FetchStep
     /\ CachedCall(call')
     /\ EntryYoungerThan(call', CacheOf(call', caches), now, CACHE_EXPIRY_SECONDS))
        => /\ ~call'.locals.store_read
           /\ caches' = caches
           /\ NoError(result')
           /\ Shown(call', result') =
                ShownOfRecord(call', CacheOf(call', caches)[call'.locals.cache_key].data)

\* the call that stores an entry and the call that is served from it report
\* the digest of the record of the entry
StoredAndServedSameHash ==
    (/\ FetchStep
     /\ CachedCall(call')
     /\ NoError(result'))
        => ReportsHashOf(call', result',
                         CacheOf(call', caches')[call'.locals.cache_key].data)

----------------------------------------------------------------------------
(* C12: a resolution that finds an entry of its key stored less than 300
   seconds before returns the record of the entry without reading the
   reference table and without changing the entry's cached_at, and the
   resolution that stored the entry and this one report the same content
   hash. *)
C12_CacheHit == [][HitServesEntry /\ StoredAndServedSameHash]_vars

----------------------------------------------------------------------------
\* a call finds an entry of its key that is 300 seconds old or older: it
\* reads the reference table, overwrites that entry and no other with the
\* record read and the time of the call, and returns the record read
ExpiredIsReread ==
    (/\ FetchStep
     /\ CachedCall(call')
     /\ call'.locals.cache_key \in DOMAIN CacheOf(call', caches)
     /\ ~EntryYoungerThan(call', CacheOf(call', caches), now, CACHE_EXPIRY_SECONDS))
        => /\ call'.locals.store_read
           /\ InStore(call', stores)
           /\ caches' = [caches EXCEPT ![CacheIndex(call')] =
                            [@ EXCEPT ![call'.locals.cache_key] =
                                [data |-> StoreRecord(call', stores),
                                 cached_at |-> now]]]
           /\ NoError(result')
           /\ Shown(call', result') = ShownOfRecord(call', StoreRecord(call', stores))

\* a call is served from an entry only if the entry is younger than 300
\* seconds
ServedOnlyWhileYoung ==
    (/\ FetchStep
     /\ CachedCall(call')
     /\ ~call'.locals.store_read)
        => EntryYoungerThan(call', CacheOf(call', caches), now, CACHE_EXPIRY_SECONDS)

(* C13: an entry is served only while now - cached_at is less than 300
   seconds; a resolution of its key at an age of 300 seconds or more reads
   the reference table again, overwrites the entry of exactly that key with
   the record read and a new cached_at, and returns the record read, so a
   record replaced in the table shows in the first resolution after the
   validity. *)
C13_CacheExpiry == [][ExpiredIsReread /\ ServedOnlyWhileYoung]_vars

\* the entry of macbook_pro, expired at age 300, was overwritten with the
\* replaced record, and the envelope shows the replaced total
C13_Witness ==
    /\ call.made
    /\ call.resolver = "fetch_carbon_footprint"
    /\ call.locals.key_in_cache
    /\ ~call.locals.cache_hit
    /\ now = CACHE_EXPIRY_SECONDS
    /\ carbon_footprint_cache[call.locals.cache_key] =
           [data |-> ReplacedRecord, cached_at |-> now]
    /\ result.data_payload.carbonFootprint.total = "190.0"

----------------------------------------------------------------------------
(* C14: no step removes a cache entry: in each of the four caches a key
   that is present stays present in every later state, stale or not, and
   an entry changes only by being overwritten by a resolution of its own
   key. *)
C14_NoRemoval ==
    [][\A i \in 1..4 :
          /\ DOMAIN caches[i] \subseteq DOMAIN caches'[i]
          /\ \A k \in DOMAIN caches[i] :
                caches'[i][k] # caches[i][k]
                    => /\ FetchStep
                       /\ CachedCall(call')
                       /\ CacheIndex(call') = i
                       /\ call'.locals.cache_key = k]_vars

\* the entry of john_smith has outlived its validity and a later call into
\* another cache has stored an entry of its own
C14_Witness ==
    /\ "education_john_smith" \in DOMAIN education_cache
    /\ now - education_cache["education_john_smith"].cached_at >= CACHE_EXPIRY_SECONDS
    /\ call.made
    /\ call.resolver = "fetch_supply_chain_status"
    /\ call.locals.cache_key \in DOMAIN supply_chain_cache
    /\ supply_chain_cache[call.locals.cache_key].cached_at = now

----------------------------------------------------------------------------
(* C15: every successful envelope of the education, supply chain, carbon
   footprint and reputation resolvers carries in its verification proof a
   content hash, and the hash is the digest of the resolved record and of
   nothing else: the same for a record served from the cache and one read
   from the reference table. *)
C15_ContentHash ==
    (StaticCall /\ NoError(result))
        => /\ CachedCall(call)
           /\ call.locals.cache_key \in DOMAIN CacheOf(call, caches)
           /\ ReportsHashOf(call, result,
                            CacheOf(call, caches)[call.locals.cache_key].data)

----------------------------------------------------------------------------
(* Vocabulary of the agent properties *)

ResponseModels == {"VerifiableDataResponse", "ErrorMessage"}

\* this step is handle_internal_response taking the response model id from
\* the inbox: no other handler takes a response model
ResponseTaken(id) ==
    /\ id \in DOMAIN inbox
    /\ inbox[id].type \in ResponseModels
    /\ id \notin DOMAIN inbox'

\* the messages sent for the inbound message id
SentFor(sent, id) == IF id \in DOMAIN sent THEN sent[id] ELSE <<>>

\* the final reports among them: the messages of handle_internal_response
ReportsFor(sent, id) ==
    {n \in 1..Len(SentFor(sent, id)) :
        SentFor(sent, id)[n].handler = "handle_internal_response"}

(* C16: when handle_internal_response receives a VerifiableDataResponse or
   an ErrorMessage whose session_id is bound to no address, it drops it: it
   sends nothing to any address and leaves the session store, the caches and
   the other messages in flight as they were; a response model of a bound
   session is delivered to the bound address all the same. *)
C16_UnboundDropped ==
    [][\A id \in DOMAIN inbox :
          ResponseTaken(id) =>
              IF inbox[id].session_id \notin DOMAIN storage
              THEN /\ outbox' = outbox
                   /\ storage' = storage
                   /\ caches' = caches
                   /\ pending' = pending
                   /\ inbox' = Without(inbox, id)
              ELSE /\ Truthy(inbox[id].session_id)
                   /\ Len(SentFor(outbox', id)) = Len(SentFor(outbox, id)) + 1
                   /\ SentFor(outbox', id)[Len(SentFor(outbox', id))].to =
                        storage[inbox[id].session_id]
                   /\ \A other \in DOMAIN outbox \ {id} : outbox'[other] = outbox[other]]_vars

\* the completion of a request of the session S3, which is bound to no
\* address, was dropped, and a completion of a bound session was delivered
C16_Witness ==
    /\ \E id \in DOMAIN fetched :
          /\ fetched[id].session_id = "S3"
          /\ "S3" \notin DOMAIN storage
          /\ id \notin DOMAIN inbox
          /\ id \notin DOMAIN outbox
    /\ \E id \in DOMAIN fetched :
          /\ fetched[id].session_id \in DOMAIN storage
          /\ id \notin DOMAIN inbox
          /\ ReportsFor(outbox, id) # {}

----------------------------------------------------------------------------
\* the inbound messages so far that were chat messages carrying the session
ChatsCarrying(session) ==
    {id \in DOMAIN outbox :
        /\ outbox[id][1].type = "ChatAcknowledgement"
        /\ outbox[id][1].session_id = session}

\* their senders; the inbound messages are numbered in the order of arrival
Binders(session) == {outbox[id][1].to : id \in ChatsCarrying(session)}

FirstBinder(session) ==
    outbox[CHOOSE id \in ChatsCarrying(session) :
              \A other \in ChatsCarrying(session) : id <= other][1].to

LastBinder(session) ==
    outbox[CHOOSE id \in ChatsCarrying(session) :
              \A other \in ChatsCarrying(session) : id >= other][1].to

\* the final reports sent so far
FinalReports ==
    UNION {{outbox[id][n] : n \in ReportsFor(outbox, id)} : id \in DOMAIN outbox}

(* C17 as claimed: every final report of a completed envelope tagged with a
   session is sent to the sender of the first chat message that carried the
   session, whatever messages of other senders and sessions arrive in
   between. *)
C17_AsClaimed ==
    \A id \in DOMAIN outbox : \A n \in ReportsFor(outbox, id) :
        outbox[id][n].to = FirstBinder(outbox[id][n].session_id)

(* C17: every final report of a completed envelope tagged with a session is
   sent to one address, the sender of the last chat message carrying the
   session that arrived before handle_internal_response handled the
   envelope; it is the sender of the first one as long as no other sender
   has sent a chat message carrying the session. *)
C17_BoundAtDelivery ==
    [][\A id \in DOMAIN inbox :
          (ResponseTaken(id) /\ inbox[id].session_id \in DOMAIN storage)
              => /\ Len(SentFor(outbox', id)) = Len(SentFor(outbox, id)) + 1
                 /\ \E report \in {outbox'[id][Len(outbox'[id])]} :
                       /\ report.handler = "handle_internal_response"
                       /\ report.session_id = inbox[id].session_id
                       /\ ChatsCarrying(report.session_id) # {}
                       /\ report.to = LastBinder(report.session_id)
                       /\ \A a \in Senders :
                             Binders(report.session_id) = {a} => report.to = a]_vars

\* A and then B sent a chat message carrying S1, and a final report tagged
\* S1 went to B
C17_Witness ==
    /\ ChatsCarrying("S1") # {}
    /\ FirstBinder("S1") = "A"
    /\ LastBinder("S1") = "B"
    /\ \E report \in FinalReports : report.session_id = "S1" /\ report.to = "B"

----------------------------------------------------------------------------
(* C18: the session store is last-write-wins: a chat message binds its
   session to its sender whatever the session was bound to and changes the
   binding of no other session, so that every session is bound to the sender
   of the last chat message that carried it; and no step, the delivery of a
   report included, removes a binding. *)
C18_LastWriteWins ==
    [][/\ DOMAIN storage \subseteq DOMAIN storage'
       /\ storage' # storage
            => /\ received' = received + 1
               /\ \E session \in Sessions : \E sender \in Senders :
                     storage' = (session :> sender) @@ storage
       /\ \A session \in Sessions :
             ChatsCarrying(session)' # {}
                => /\ session \in DOMAIN storage'
                   /\ storage'[session] = LastBinder(session)']_vars

\* S1 was bound to A and then to B, S1 is bound to B, and the binding is
\* still there after every message was handled and a report was delivered
C18_Witness ==
    /\ "S1" \in DOMAIN storage
    /\ storage["S1"] = "B"
    /\ FirstBinder("S1") = "A"
    /\ inbox = EmptyDict
    /\ pending = EmptyDict
    /\ FinalReports # {}

----------------------------------------------------------------------------
(* C19: a final report is sent only after the fetch of the structured request
   it answers has returned an envelope, never while that fetch is suspended
   or the request still waits to be handled; it carries the session_id of the
   request, and its text is what the formatter makes of that envelope. *)
C19_ReportAfterFetch ==
    [][\A id \in DOMAIN outbox' :
          ReportsFor(outbox', id) # ReportsFor(outbox, id)
              => /\ id \in DOMAIN fetched
                 /\ id \notin DOMAIN pending
                 /\ id \in DOMAIN inbox
                 /\ inbox[id].type \in ResponseModels
                 /\ \E report \in {outbox'[id][Len(outbox'[id])]} :
                       /\ report.session_id = fetched[id].session_id
                       /\ report.text = format_response_for_chat(fetched[id].envelope)
                       /\ report.end_session]_vars

\* the report of a price request was delivered: its fetch was suspended in
\* the call of the price API, returned a price, and then the report was sent
C19_Witness ==
    \E id \in DOMAIN fetched :
        /\ fetched[id].call.resolver = "fetch_crypto_price"
        /\ ~("error_message" \in DOMAIN fetched[id].envelope)
        /\ id \notin DOMAIN pending
        /\ ReportsFor(outbox, id) # {}

\* a response or an envelope whose error_message is not empty
CarriesError(response_data) ==
    /\ "error_message" \in DOMAIN response_data
    /\ Truthy(response_data.error_message)

\* the formatter was given an error_message together with a payload
ErrorNextToPayload ==
    /\ formatted.applied
    /\ CarriesError(formatted.response_data)
    /\ "data_payload" \in DOMAIN formatted.response_data
    /\ NonEmpty(formatted.response_data.data_payload)

(* C20: for every response with a non-empty error_message, whatever its
   data_payload and request_data_type, format_response_for_chat returns the
   Error Report of that error_message and nothing else; and every final report
   sent for a fetch that returned an error_message is the Error Report of that
   error_message, so that it holds no text made from a data_payload. *)
C20_ErrorAuthoritative ==
    /\ (formatted.applied /\ CarriesError(formatted.response_data))
          => formatted.text = error_report(formatted.response_data.error_message)
    /\ \A id \in DOMAIN outbox : \A n \in ReportsFor(outbox, id) :
          (id \in DOMAIN fetched /\ CarriesError(fetched[id].envelope))
              => /\ outbox[id][n].type = "ChatMessage"
                 /\ outbox[id][n].text = error_report(fetched[id].envelope.error_message)

C20_Witness ==
    /\ ErrorNextToPayload
    /\ formatted.response_data.request_data_type = "education_credential"
    /\ formatted.text = error_report("The data source is unavailable.")
    /\ \E id \in DOMAIN fetched :
          /\ CarriesError(fetched[id].envelope)
          /\ fetched[id].call.resolver = "fetch_crypto_price"
          /\ ReportsFor(outbox, id) # {}

\* the data types format_response_for_chat has a renderer for
RenderedTypes ==
    {"crypto_price", "education_credential", "supply_chain_status",
     "carbon_footprint", "reputation_score"}

\* the keys of data_payload the renderer of a data type reads
ExpectedKeys(request_data_type) ==
    CASE request_data_type = "crypto_price" -> {"price", "currency", "asset_id"}
      [] request_data_type = "education_credential" -> {"profile", "credentials"}
      [] request_data_type = "supply_chain_status" ->
            {"product", "supplyChain", "certifications", "sustainability",
             "verificationProof"}
      [] request_data_type = "carbon_footprint" ->
            {"productInfo", "companyInfo", "activityInfo", "carbonFootprint",
             "emissions", "verification"}
      [] request_data_type = "reputation_score" ->
            {"entityInfo", "reputationScores", "statistics", "highlights",
             "verification"}
      [] OTHER -> {}

\* data_payload holds something the renderer of the data type reads
SubStructurePresent(response_data) ==
    /\ "data_payload" \in DOMAIN response_data
    /\ DOMAIN response_data.data_payload
          \cap ExpectedKeys(response_data.request_data_type) # {}

\* the report is the one of the generic renderer: after the two lines of the
\* header it starts with the line of the type
GenericReport(text) ==
    /\ Len(text) >= 3
    /\ text[1] = <<"# Verifiable Data Report">>
    /\ text[3][1] = "**Type:** "

(* C21: for a response without error_message, format_response_for_chat uses
   the generic renderer whenever request_data_type is none of the five known
   types and whenever it is one of the five but data_payload holds nothing of
   what the renderer of the type reads (an empty mapping, no payload); the
   renderer of a type is used only when that sub-structure is present. *)
C21_GenericFallback ==
    (formatted.applied /\ ~CarriesError(formatted.response_data))
        => (GenericReport(formatted.text)
               <=> ~(/\ formatted.response_data.request_data_type \in RenderedTypes
                     /\ SubStructurePresent(formatted.response_data)))

\* the fields every envelope of the router holds
EnvelopeFields ==
    {"request_data_type", "request_identifier", "source_description",
     "data_payload", "verification_summary", "timestamp"}

(* C22: every call of the router returns an envelope, never an exception, for
   all five domains and for an unsupported type, whatever the upstream price
   call did (a price, a body without the identifier or the currency, an HTTP
   error status, a transport error, any other exception); and in every
   envelope error_message is present and not empty if and only if
   data_payload is empty. *)
C22_ErrorIffEmptyPayload ==
    call.made
        => /\ EnvelopeFields \subseteq DOMAIN result
           /\ DOMAIN result \subseteq EnvelopeFields \cup {"error_message"}
           /\ "error_message" \in DOMAIN result => Truthy(result.error_message)
           /\ CarriesError(result) <=> ~NonEmpty(result.data_payload)

C22_Witness ==
    /\ call.made
    /\ call.resolver = "fetch_crypto_price"
    /\ call.upstream.kind = "Exception"
    /\ CarriesError(result)
    /\ ~NonEmpty(result.data_payload)

\* the price request id waits for the answer of the price API
CallInFlight(waiting, id) ==
    /\ id \in DOMAIN waiting
    /\ waiting[id].handler = "handle_verifiable_data_request"

\* the price the body of the upstream answer holds for the call, if any
PriceInBody(made) ==
    /\ made.upstream.kind = "json"
    /\ made.identifier \in DOMAIN made.upstream.api_data
    /\ made.locals.vs_currency \in DOMAIN made.upstream.api_data[made.identifier]

(* C23: a price request makes exactly one call of the price API: the call is
   issued by a request whose fetch has not returned, and when the call
   returns the fetch returns with it, no call of the request left in flight;
   a failed call or a body without the price gives an error envelope holding
   the text of the failure, a body with the price gives that price, whatever
   earlier requests were answered, and no cache changes. *)
C23_SingleUpstreamCall ==
    [][\A id \in DOMAIN pending \cup DOMAIN pending' \cup DOMAIN fetched' :
          /\ (CallInFlight(pending', id) /\ ~CallInFlight(pending, id))
                => id \notin DOMAIN fetched
          /\ (id \in DOMAIN fetched' /\ fetched'[id].call.resolver = "fetch_crypto_price")
                => ~CallInFlight(pending', id)
          /\ (CallInFlight(pending, id) /\ ~CallInFlight(pending', id))
                => /\ id \notin DOMAIN fetched
                   /\ id \in DOMAIN fetched'
                   /\ UNCHANGED caches
                   /\ \E made \in {fetched'[id].call} :
                      \E envelope \in {fetched'[id].envelope} :
                         /\ made.locals.upstream_calls = 1
                         /\ IF PriceInBody(made)
                            THEN /\ ~CarriesError(envelope)
                                 /\ envelope.data_payload.price =
                                       made.upstream.api_data[made.identifier][made.locals.vs_currency]
                            ELSE /\ CarriesError(envelope)
                                 /\ Contains(made.upstream.text, envelope.error_message)
                                 /\ envelope.data_payload = EmptyDict]_vars

\* the same price was asked for twice: one call gave the price, the other one
\* failed and its request was answered with the failure
C23_Witness ==
    \E id \in DOMAIN fetched : \E other \in DOMAIN fetched :
        /\ fetched[id].call.query_details = "vs_currency=usd"
        /\ fetched[other].call.query_details = "vs_currency=usd"
        /\ ~CarriesError(fetched[id].envelope)
        /\ CarriesError(fetched[other].envelope)
        /\ fetched[other].call.upstream.kind = "HTTPStatusError"
        /\ other \notin DOMAIN pending
        /\ other \notin DOMAIN inbox

\* the fetches that returned in the step, and those among them that went
\* through a cache
ReturnedInStep == DOMAIN fetched' \ DOMAIN fetched

ThroughCache(id) == "cache_key" \in DOMAIN fetched'[id].call.locals

\* the check of the cache and the insert of the fetch id happened in the
\* step, on the cache as it was before the step: a fresh entry is left as it
\* is, anything else is replaced by the record of the store
CheckedAndInserted(id) ==
    \E c \in {fetched'[id].call} :
    \E before \in {CacheOf(c, caches)} :
    \E after \in {CacheOf(c, caches')} :
        /\ \A i \in (1..4) \ {CacheIndex(c)} : caches'[i] = caches[i]
        /\ IF ~InStore(c, stores) \/ CacheFresh(before, c.locals.cache_key, now)
           THEN after = before
           ELSE after = CachePut(before, c.locals.cache_key, StoreRecord(c, stores), now)

\* the cache holds the record of the store under the key of the fetch id
HoldsStoreRecord(id) ==
    \E c \in {fetched'[id].call} :
        InStore(c, stores)
            => /\ c.locals.cache_key \in DOMAIN CacheOf(c, caches')
               /\ CacheOf(c, caches')[c.locals.cache_key].data = StoreRecord(c, stores)

(* C24: handlers interleave only at the awaits of the language model and of
   the price API: no resolution of a static domain is ever suspended, its
   check of the cache and its insert happen in one step, and a bind is one
   step of the chat handler.  Hence under every interleaving the cache holds,
   for the key of every resolution that found its record, the record of the
   store, and the binding of a session is the address of the last chat
   message that carried it. *)
C24_AtomicSharedMaps ==
    [][/\ \A id \in DOMAIN pending' :
             pending'[id].handler = "handle_verifiable_data_request"
                 => /\ pending'[id].awaits = "client.get"
                    /\ dispatch(pending'[id].request.data_type) = "fetch_crypto_price"
       /\ caches' # caches => ReturnedInStep # {}
       /\ \A id \in ReturnedInStep : ThroughCache(id) => CheckedAndInserted(id)
       /\ \A id \in DOMAIN fetched' : ThroughCache(id) => HoldsStoreRecord(id)
       /\ storage' # storage => received' = received + 1
       /\ \A session \in DOMAIN storage' :
             storage'[session] = LastBinder(session)']_vars

\* two senders asked for the same record in the same session, the second one
\* after the entry of the first one had expired
C24_Witness ==
    /\ Binders("S1") = {"A", "B"}
    /\ storage["S1"] = "B"
    /\ now > 0
    /\ \E id \in DOMAIN fetched : \E other \in DOMAIN fetched :
          /\ id < other
          /\ fetched[id].call.resolver = "fetch_carbon_footprint"
          /\ fetched[other].call.resolver = "fetch_carbon_footprint"
          /\ fetched[other].call.locals.key_in_cache
          /\ carbon_footprint_cache[fetched[other].call.locals.cache_key].cached_at = now

\* the call was a reputation call for an entity of the dataset
KnownEntityCall ==
    /\ call.made
    /\ call.resolver = "fetch_reputation_score"
    /\ call.locals.normalized_identifier \in DOMAIN simulated_reputation_data

\* query_details names an aspect the entity of the call has a record for
NamesRecordedAspect ==
    \E aspect \in DOMAIN simulated_reputation_data[call.locals.normalized_identifier] :
        Contains("aspect=" \o aspect, call.query_details)

(* C25: for every entity of the reputation dataset and every query_details
   that names no aspect the entity has a record for, the aspect resolved is
   general: no substring test and no prefix test selects another one, the
   envelope is the successful one built from the entity's general record, and
   the error envelope of an entity without the aspect is not returned. *)
C25_GeneralBackstop ==
    (KnownEntityCall /\ ~NamesRecordedAspect)
        => /\ call.locals.reputation_aspect = "general"
           /\ call.locals.cache_key =
                 "reputation_" \o call.locals.normalized_identifier \o "_general"
           /\ "error_message" \notin DOMAIN result
           /\ result.data_payload.entityInfo.name =
                 simulated_reputation_data[call.locals.normalized_identifier]["general"].name
           /\ result.data_payload.reputationScores.overall =
                 simulated_reputation_data[call.locals.normalized_identifier]["general"].overallScore

\* an aspect was asked for that the entity has no record for
C25_Witness ==
    /\ KnownEntityCall
    /\ call.identifier = "alex_developer"
    /\ call.query_details = "aspect=service"
    /\ ~NamesRecordedAspect
    /\ call.locals.reputation_aspect = "general"
    /\ "error_message" \notin DOMAIN result

\* the message id of the inbox is handled in the step
HandledInStep(id) ==
    /\ id \in DOMAIN inbox
    /\ id \in DOMAIN inbox' => inbox'[id].type # inbox[id].type

\* the inbound message id has arrived and nothing is left of it: it is not in
\* the inbox, no handler awaits anything for it, no fetch was made and no
\* message was sent for it
Dropped(id) ==
    /\ id \in 1..received
    /\ id \notin DOMAIN inbox \cup DOMAIN pending \cup DOMAIN fetched \cup DOMAIN outbox

(* C26: a structured request whose session_id is empty is dropped by
   handle_verifiable_data_request before any fetch: no resolver and no
   upstream call is made for it, no cache changes, and no response model and
   no other message is sent; a response model whose session_id is empty is
   dropped by handle_internal_response likewise, whatever the session store
   holds, and the store is left as it is. *)
C26_UntaggedDropped ==
    [][/\ \A id \in DOMAIN inbox :
             (HandledInStep(id) /\ ~Truthy(inbox[id].session_id))
                 => /\ inbox' = Without(inbox, id)
                    /\ UNCHANGED <<caches, storage, pending, outbox, fetched,
                                   call, result, calls>>
       /\ \A id \in DOMAIN fetched' : Truthy(fetched'[id].session_id)
       /\ \A id \in DOMAIN pending' :
             pending'[id].handler = "handle_verifiable_data_request"
                 => Truthy(pending'[id].request.session_id)
       /\ \A id \in DOMAIN outbox' : \A n \in 1..Len(outbox'[id]) :
             Truthy(outbox'[id][n].session_id)]_vars

\* an inbound message without session_id was dropped while a session was bound
C26_Witness ==
    /\ "S1" \in DOMAIN storage
    /\ \E id \in 1..received : Dropped(id)

\* the structured request id, with a session_id, waits in the inbox
RequestWaiting(id) ==
    /\ id \in DOMAIN inbox
    /\ inbox[id].type = "VerifiableDataRequest"
    /\ Truthy(inbox[id].session_id)

\* the fetch of the request id has returned and its response model was handled
Answered(id) ==
    /\ id \in DOMAIN fetched
    /\ id \notin DOMAIN inbox
    /\ id \notin DOMAIN pending

\* a request leaves the inbox only into its fetch; a fetch that returns sends
\* one response model of the kind of its envelope, tagged with the session_id
\* of the request; a fetch that returned is not made again
OneResponseModel ==
    /\ \A id \in DOMAIN inbox :
          (RequestWaiting(id) /\ HandledInStep(id))
              => \/ CallInFlight(pending', id) /\ pending'[id].request = inbox[id]
                 \/ id \in ReturnedInStep /\ inbox'[id].session_id = inbox[id].session_id
    /\ \A id \in DOMAIN pending :
          (CallInFlight(pending, id) /\ ~CallInFlight(pending', id))
              => id \in ReturnedInStep
                 /\ inbox'[id].session_id = pending[id].request.session_id
    /\ \A id \in ReturnedInStep :
          /\ id \in DOMAIN inbox'
          /\ inbox'[id].type = IF CarriesError(fetched'[id].envelope)
                               THEN "ErrorMessage" ELSE "VerifiableDataResponse"
    /\ \A id \in DOMAIN fetched :
          /\ id \in DOMAIN fetched'
          /\ fetched'[id] = fetched[id]
          /\ ~RequestWaiting(id)'
          /\ ~CallInFlight(pending', id)
          /\ id \notin DOMAIN inbox => id \notin DOMAIN inbox'

\* a response model that is handled gives one final message marked
\* end-of-session to the address its session is bound to, none if the session
\* is not bound, and never a second one
OneFinalMessage ==
    /\ \A id \in DOMAIN inbox :
          ResponseTaken(id)
              => IF inbox[id].session_id \in DOMAIN storage
                 THEN /\ Len(SentFor(outbox', id)) = Len(SentFor(outbox, id)) + 1
                      /\ ReportsFor(outbox, id) = {}
                      /\ ReportsFor(outbox', id) = {Len(outbox'[id])}
                      /\ outbox'[id][Len(outbox'[id])].to = storage[inbox[id].session_id]
                      /\ outbox'[id][Len(outbox'[id])].type = "ChatMessage"
                      /\ outbox'[id][Len(outbox'[id])].end_session
                 ELSE UNCHANGED outbox
    /\ \A id \in DOMAIN outbox' :
          ReportsFor(outbox', id) # ReportsFor(outbox, id) => ResponseTaken(id)

(* C27: every structured request with a session_id ends in exactly one
   response model sent to the agent itself, a VerifiableDataResponse when the
   fetch returned no error_message and an ErrorMessage otherwise, tagged with
   the session_id of the request; if the session is bound when the response
   model is handled, in exactly one final chat message marked end-of-session
   to the bound address.  No request is dropped on the way or answered twice,
   and, the call of the price API returning, every request is answered in
   the end. *)
C27_AnsweredOnce ==
    /\ [][OneResponseModel /\ OneFinalMessage]_vars
    /\ \A id \in 1..MaxMessages : RequestWaiting(id) ~> Answered(id)

\* a price request of a bound session and a request for an unknown credential
\* were both answered, one with a report of the price
C27_Witness ==
    \E id \in DOMAIN fetched : \E other \in DOMAIN fetched :
        /\ Answered(id)
        /\ Answered(other)
        /\ fetched[id].call.resolver = "fetch_crypto_price"
        /\ ~CarriesError(fetched[id].envelope)
        /\ ReportsFor(outbox, id) # {}
        /\ CarriesError(fetched[other].envelope)

\* what became of the chat message id after its acknowledgement: a reply to
\* the sender that ends the session, or a request to the agent itself
RepliedTo(sent, id) ==
    /\ Len(sent[id]) = 2
    /\ sent[id][2].type = "ChatMessage"
    /\ sent[id][2].end_session
    /\ sent[id][2].to = sent[id][1].to

RequestMade(box, sent, id) ==
    /\ id \in DOMAIN box
    /\ box[id].type = "VerifiableDataRequest"
    /\ box[id].session_id = sent[id][1].session_id

(* C28: for every inbound chat message the handler binds the session of the
   message to its sender and sends the sender a ChatAcknowledgement before
   any other message caused by the chat message; after that exactly one of
   two things happens: one reply to the sender that ends the session (empty
   text, no language-model configuration, structuring failed or did not
   parse), or one structured request tagged with the session sent to the
   agent itself; never both. *)
C28_AckThenOneOutcome ==
    [][/\ received' = received + 1
             => /\ received' \in DOMAIN outbox'
                /\ outbox'[received'][1].type = "ChatAcknowledgement"
                /\ outbox'[received'][1].session_id \in DOMAIN storage'
                /\ storage'[outbox'[received'][1].session_id] = outbox'[received'][1].to
       /\ \A id \in DOMAIN outbox' :
             /\ outbox'[id][1].type = "ChatAcknowledgement"
             /\ Len(outbox'[id]) <= 2
             /\ Len(outbox'[id]) = 2 => RepliedTo(outbox', id)
             /\ ~(RepliedTo(outbox', id) /\ RequestMade(inbox', outbox', id))
             /\ id \notin DOMAIN pending'
                   => (RepliedTo(outbox', id) \/ RequestMade(inbox', outbox', id))
       /\ \A id \in DOMAIN inbox' : RequestMade(inbox', outbox', id)]_vars

\* the records of the reference tables of the four static domains, each with
\* the cache key its resolver stores it under
KeyedRecords(i) ==
    CASE i = 1 -> {<<education_cache_key(id), simulated_credentials[id]>> :
                      id \in DOMAIN simulated_credentials}
      [] i = 2 -> {<<supply_chain_cache_key(id), simulated_supply_chains[id]>> :
                      id \in DOMAIN simulated_supply_chains}
      [] i = 3 -> UNION {{<<carbon_cache_key(scope, id), simulated_carbon_data[scope][id]>> :
                             id \in DOMAIN simulated_carbon_data[scope]} :
                         scope \in DOMAIN simulated_carbon_data}
      [] i = 4 -> UNION {{<<reputation_cache_key(id, aspect),
                            simulated_reputation_data[id][aspect]>> :
                             aspect \in DOMAIN simulated_reputation_data[id]} :
                         id \in DOMAIN simulated_reputation_data}

(* C29: a resolution that does not find its identifier leaves the four caches
   as they were; hence in every reachable state every key of a cache is the
   key of a record of the reference table of its domain (for that scope or
   aspect and that normalized identifier), the value under it is that record,
   and no cache has more entries than its domain has records. *)
C29_NoNegativeEntries ==
    [][/\ (FetchStep /\ CarriesError(result')) => UNCHANGED caches
       /\ \A i \in 1..4 :
             /\ \A k \in DOMAIN caches'[i] :
                   <<k, caches'[i][k].data>> \in KeyedRecords(i)
             /\ Cardinality(DOMAIN caches'[i]) <= Cardinality(KeyedRecords(i))]_vars

\* an unknown identifier was asked for while the cache of its domain held an
\* entry, and the cache is as it was filled
C29_Witness ==
    /\ call.made
    /\ call.resolver = "fetch_carbon_footprint"
    /\ call.identifier = "unknown_item"
    /\ CarriesError(result)
    /\ DOMAIN carbon_footprint_cache = {"carbon_product_macbook_pro"}

\* the envelope of the call c at time t from a router whose caches hold
\* nothing, so that every resolution reads its reference table
Uncached(c, t) ==
    route(c.data_type, c.identifier, c.query_details, c.upstream,
          <<EmptyCache, EmptyCache, EmptyCache, EmptyCache>>, stores, t).envelope

(* C30: the caches are transparent: for every sequence of requests and clock
   advances the envelope the router returns for a request is the envelope a
   router without caches returns for it at the same time; a call served from
   a cache is served the record the reference table holds for the scope or
   aspect and the identifier it resolved, and no other key shares its
   entry. *)
C30_CacheTransparent ==
    [][FetchStep
          => /\ result' = Uncached(call', now)
             /\ (CachedCall(call') /\ call'.locals.cache_hit)
                   => /\ InStore(call', stores)
                      /\ CacheOf(call', caches)[call'.locals.cache_key].data
                            = StoreRecord(call', stores)
                      /\ <<call'.locals.cache_key, StoreRecord(call', stores)>>
                            \in KeyedRecords(CacheIndex(call'))
                      /\ \A pair \in KeyedRecords(CacheIndex(call')) :
                            pair[1] = call'.locals.cache_key
                                => pair[2] = StoreRecord(call', stores)]_vars

\* a request that asked for a product as a company was served the entry of
\* the product, stored by an earlier request, after the clock had advanced
C30_Witness ==
    /\ call.made
    /\ call.resolver = "fetch_carbon_footprint"
    /\ call.identifier = "macbook_pro"
    /\ call.query_details = "scope=company"
    /\ call.locals.cache_hit
    /\ call.locals.cache_key = "carbon_product_macbook_pro"
    /\ now > carbon_footprint_cache[call.locals.cache_key].cached_at

====
